---- MODULE Spec2Model ----
(***************************************************************************)
(* Model of the data-normalisation layer of the RC build dashboard:        *)
(*   - parseCSV      (src/utils/dataParser.ts)                             *)
(*   - smartCompare  (src/App.tsx)                                         *)
(*                                                                         *)
(* A JavaScript string is modelled as a sequence of one-character strings. *)
(* A cell value (string | number) is modelled as a record                  *)
(*   [type |-> "string" | "number", text |-> <characters>]                 *)
(* where, for a number, text is the text String(n) produces.               *)
(***************************************************************************)
EXTENDS Integers, Sequences, FiniteSets, TLC

VARIABLES csvText, table, pc, cmpA, cmpB, cmpResult, cmpC, cmpBC, cmpAC, cmpStored,
          colHeaders, colAliases, colRow, colFound, colValue,
          selectedPlatform, selectedBuild, startDate, endDate, filteredRows,
          dataMap, loadingMap, errorMap, dynamicGidMap, discoveredTabs, calls,
          ticks, refreshProgress

csvVars == <<csvText, table>>
cmpVars == <<cmpA, cmpB, cmpResult, cmpC, cmpBC, cmpAC, cmpStored>>
colVars == <<colHeaders, colAliases, colRow, colFound, colValue>>
viewVars == <<selectedPlatform, selectedBuild, startDate, endDate, filteredRows>>

appVars == <<dataMap, loadingMap, errorMap, dynamicGidMap, discoveredTabs, calls>>

timerVars == <<ticks, refreshProgress>>

vars == <<csvVars, pc, cmpVars, colVars, viewVars, appVars, timerVars>>

(***************************************************************************)
(* Bounds of the explored inputs.                                          *)
(***************************************************************************)
MaxLen == 5
MaxBody == 2
MaxHeaders == 3
MaxAliases == 2
MaxDataLines == 2
MaxCalls == 6
MaxChainBody == 1
MaxTicks == 122

(***************************************************************************)
(* Characters and strings.                                                 *)
(***************************************************************************)
QUOTE == "\""
COMMA == ","
LF == "\n"
CR == "\r"

\* White space as String.prototype.trim() and Number() see it.
IsSpace(c) == c \in {" ", "\t", "\r", "\n"}

Digits == <<"0", "1", "2", "3", "4", "5", "6", "7", "8", "9">>
IsDigit(c) == \E i \in 1..10 : Digits[i] = c
DigitVal(c) == (CHOOSE i \in 1..10 : Digits[i] = c) - 1

UpperCase == <<"A", "B", "C", "D", "E", "F", "G", "H", "I", "J", "K", "L", "M",
               "N", "O", "P", "Q", "R", "S", "T", "U", "V", "W", "X", "Y", "Z">>
LowerCase == <<"a", "b", "c", "d", "e", "f", "g", "h", "i", "j", "k", "l", "m",
               "n", "o", "p", "q", "r", "s", "t", "u", "v", "w", "x", "y", "z">>

ToLowerChar(c) ==
  IF \E i \in 1..26 : UpperCase[i] = c
    THEN LowerCase[CHOOSE i \in 1..26 : UpperCase[i] = c]
    ELSE c

\* String.prototype.toLowerCase()
ToLowerCase(s) == [i \in 1..Len(s) |-> ToLowerChar(s[i])]

RECURSIVE TrimStart(_)
TrimStart(s) ==
  IF s # <<>> /\ IsSpace(s[1]) THEN TrimStart(Tail(s)) ELSE s

RECURSIVE TrimEnd(_)
TrimEnd(s) ==
  IF s # <<>> /\ IsSpace(s[Len(s)]) THEN TrimEnd(SubSeq(s, 1, Len(s) - 1)) ELSE s

\* String.prototype.trim()
Trim(s) == TrimEnd(TrimStart(s))

Range(f) == {f[i] : i \in DOMAIN f}

\* The set of strings over alphabet of length at most n.
StringsUpTo(alphabet, n) == UNION {[1..k -> alphabet] : k \in 0..n}

(***************************************************************************)
(* Cell values.                                                            *)
(***************************************************************************)
Str(s) == [type |-> "string", text |-> s]
Num(s) == [type |-> "number", text |-> s]

(***************************************************************************)
(* Number(s) on a string, for the decimal literals                         *)
(*   [+-]? digits [. digits*]   and   [+-]? . digits                       *)
(* The characters e, E, x, o, b, I (exponents, radix prefixes, Infinity)   *)
(* do not occur in the explored inputs.                                    *)
(***************************************************************************)
AllDigits(s) == \A i \in 1..Len(s) : IsDigit(s[i])

Unsigned(s) == IF s # <<>> /\ s[1] \in {"+", "-"} THEN Tail(s) ELSE s

DotPos(s) == CHOOSE i \in 1..Len(s) : s[i] = "."

IntPart(s) ==
  IF \E i \in 1..Len(s) : s[i] = "." THEN SubSeq(s, 1, DotPos(s) - 1) ELSE s

FracPart(s) ==
  IF \E i \in 1..Len(s) : s[i] = "." THEN SubSeq(s, DotPos(s) + 1, Len(s)) ELSE <<>>

\* s is a StrDecimalLiteral (s is already trimmed).
IsDecimalLiteral(s) ==
  LET u == Unsigned(s) IN
    /\ AllDigits(IntPart(u))
    /\ AllDigits(FracPart(u))
    /\ Len(IntPart(u)) + Len(FracPart(u)) > 0

\* isNaN(s) for a string s: Number(s) is NaN. Number("") and Number("  ") are 0.
IsNaNStr(s) == Trim(s) # <<>> /\ ~IsDecimalLiteral(Trim(s))

RECURSIVE StripLeadingZeros(_)
StripLeadingZeros(s) ==
  IF s # <<>> /\ s[1] = "0" THEN StripLeadingZeros(Tail(s)) ELSE s

RECURSIVE StripTrailingZeros(_)
StripTrailingZeros(s) ==
  IF s # <<>> /\ s[Len(s)] = "0"
    THEN StripTrailingZeros(SubSeq(s, 1, Len(s) - 1))
    ELSE s

\* String(Number(s)) for a string s that is not NaN.
NumberToString(s) ==
  LET t == Trim(s)
      u == Unsigned(t)
      ip == StripLeadingZeros(IntPart(u))
      fp == StripTrailingZeros(FracPart(u))
      neg == t # <<>> /\ t[1] = "-"
  IN IF ip = <<>> /\ fp = <<>> THEN <<"0">>
     ELSE (IF neg THEN <<"-">> ELSE <<>>)
          \o (IF ip = <<>> THEN <<"0">> ELSE ip)
          \o (IF fp = <<>> THEN <<>> ELSE <<".">> \o fp)

\* Number(val) as a cell value.
NumberOf(s) == Num(NumberToString(s))

(***************************************************************************)
(* parseCSV                                                                *)
(***************************************************************************)

\* csvText.split(/\r?\n/): a line ends at "\n"; one "\r" right before it
\* belongs to the separator.
RECURSIVE SplitLinesFrom(_, _, _, _)
SplitLinesFrom(text, i, acc, cur) ==
  IF i > Len(text) THEN Append(acc, cur)
  ELSE IF text[i] = LF
    THEN SplitLinesFrom(text, i + 1,
           Append(acc, IF cur # <<>> /\ cur[Len(cur)] = CR
                         THEN SubSeq(cur, 1, Len(cur) - 1)
                         ELSE cur),
           <<>>)
    ELSE SplitLinesFrom(text, i + 1, acc, Append(cur, text[i]))

SplitLines(text) == SplitLinesFrom(text, 1, <<>>, <<>>)

\* Variant of KeepLine: only the empty line is dropped.
KeepLine_nonEmptyOnly(line) == line # <<>>

\* .filter(line => line.trim() !== "")
KeepLine(line) == Trim(line) # <<>>

NonBlankLines(text) == SelectSeq(SplitLines(text), KeepLine)

\* Variant of SplitLineFrom: a quote character is also copied into the field.
RECURSIVE SplitLineFrom_keepQuotes(_, _, _, _, _)
SplitLineFrom_keepQuotes(line, i, result, cur, inQuotes) ==
  IF i > Len(line) THEN Append(result, Trim(cur))
  ELSE IF line[i] = QUOTE
    THEN SplitLineFrom_keepQuotes(line, i + 1, result, Append(cur, line[i]), ~inQuotes)
  ELSE IF line[i] = COMMA /\ ~inQuotes
    THEN SplitLineFrom_keepQuotes(line, i + 1, Append(result, Trim(cur)), <<>>, inQuotes)
  ELSE SplitLineFrom_keepQuotes(line, i + 1, result, Append(cur, line[i]), inQuotes)

\* Variant of SplitLineFrom: every comma separates, quoted or not.
RECURSIVE SplitLineFrom_anyComma(_, _, _, _, _)
SplitLineFrom_anyComma(line, i, result, cur, inQuotes) ==
  IF i > Len(line) THEN Append(result, Trim(cur))
  ELSE IF line[i] = QUOTE
    THEN SplitLineFrom_anyComma(line, i + 1, result, cur, ~inQuotes)
  ELSE IF line[i] = COMMA
    THEN SplitLineFrom_anyComma(line, i + 1, Append(result, Trim(cur)), <<>>, inQuotes)
  ELSE SplitLineFrom_anyComma(line, i + 1, result, Append(cur, line[i]), inQuotes)

\* splitLine: the character scan with the inQuotes toggle.
RECURSIVE SplitLineFrom(_, _, _, _, _)
SplitLineFrom(line, i, result, cur, inQuotes) ==
  IF i > Len(line) THEN Append(result, Trim(cur))
  ELSE IF line[i] = QUOTE
    THEN SplitLineFrom(line, i + 1, result, cur, ~inQuotes)
  ELSE IF line[i] = COMMA /\ ~inQuotes
    THEN SplitLineFrom(line, i + 1, Append(result, Trim(cur)), <<>>, inQuotes)
  ELSE SplitLineFrom(line, i + 1, result, Append(cur, line[i]), inQuotes)

SplitLine(line) == SplitLineFrom(line, 1, <<>>, <<>>, FALSE)

\* values[index] || ""
ValueAt(values, index) == IF index <= Len(values) THEN values[index] ELSE <<>>

\* val.replace(/^"|"$/g, '')
StripQuotes(val) ==
  LET s1 == IF val # <<>> /\ val[1] = QUOTE THEN Tail(val) ELSE val
  IN IF s1 # <<>> /\ s1[Len(s1)] = QUOTE THEN SubSeq(s1, 1, Len(s1) - 1) ELSE s1

\* Variant of Coerce: the test for the empty string is missing.
Coerce_noEmptyTest(val) ==
  IF ~IsNaNStr(val) THEN NumberOf(val) ELSE Str(val)

\* The numeric check and the value stored in the row.
Coerce(val) ==
  IF val # <<>> /\ ~IsNaNStr(val) THEN NumberOf(val) ELSE Str(val)

\* Variant of SetKey: a key that is already set keeps its value.
SetKey_keepFirst(row, header, value) ==
  [h \in (DOMAIN row) \cup {header} |->
     IF h \in DOMAIN row THEN row[h] ELSE value]

\* row[header] = value
SetKey(row, header, value) ==
  [h \in (DOMAIN row) \cup {header} |-> IF h = header THEN value ELSE row[h]]

\* Variant of BuildRowFrom: the loop runs over the values, and a value
\* without a header is stored under the key "undefined".
RECURSIVE BuildRowFrom_overValues(_, _, _, _)
BuildRowFrom_overValues(headers, values, index, row) ==
  IF index > Len(headers) /\ index > Len(values) THEN row
  ELSE BuildRowFrom_overValues(headers, values, index + 1,
         [h \in (DOMAIN row) \cup
                {IF index <= Len(headers) THEN headers[index]
                                          ELSE <<"u", "n", "d", "e", "f", "i", "n", "e", "d">>} |->
            IF h = (IF index <= Len(headers) THEN headers[index]
                                             ELSE <<"u", "n", "d", "e", "f", "i", "n", "e", "d">>)
              THEN (IF StripQuotes(ValueAt(values, index)) # <<>>
                         /\ ~IsNaNStr(StripQuotes(ValueAt(values, index)))
                      THEN NumberOf(StripQuotes(ValueAt(values, index)))
                      ELSE Str(StripQuotes(ValueAt(values, index))))
              ELSE row[h]])

\* headers.forEach((header, index) => ...), from position index on.
RECURSIVE BuildRowFrom(_, _, _, _)
BuildRowFrom(headers, values, index, row) ==
  IF index > Len(headers) THEN row
  ELSE BuildRowFrom(headers, values, index + 1,
         SetKey(row, headers[index], Coerce(StripQuotes(ValueAt(values, index)))))

EmptyRow == [h \in {} |-> Str(<<>>)]

BuildRow(headers, values) == BuildRowFrom(headers, values, 1, EmptyRow)

\* Variant of ParseCSV: inQuotes is not reset, a line starts in the state the
\* line before it ended in.
ParseCSV_carryQuotes(text) ==
  LET lines == NonBlankLines(text)
      quotes(k) == Cardinality({i \in 1..Len(lines[k]) : lines[k][i] = QUOTE})
      open[k \in 0..Len(lines)] ==
        IF k = 0 THEN FALSE ELSE (open[k - 1] # (quotes(k) % 2 = 1))
      split(k) == SplitLineFrom(lines[k], 1, <<>>, <<>>, open[k - 1])
  IN IF Len(lines) = 0 THEN [headers |-> <<>>, rows |-> <<>>]
     ELSE [headers |-> split(1),
           rows |-> [k \in 1..(Len(lines) - 1) |-> BuildRow(split(1), split(k + 1))]]

\* Variant of ParseCSV: the header line is not sliced off the data lines.
ParseCSV_keepHeaderLine(text) ==
  LET lines == NonBlankLines(text) IN
    IF Len(lines) = 0 THEN [headers |-> <<>>, rows |-> <<>>]
    ELSE LET headers == SplitLine(lines[1]) IN
      [headers |-> headers,
       rows |-> [k \in 1..Len(lines) |-> BuildRow(headers, SplitLine(lines[k]))]]

ParseCSV(text) ==
  LET lines == NonBlankLines(text) IN
    IF Len(lines) = 0 THEN [headers |-> <<>>, rows |-> <<>>]
    ELSE LET headers == SplitLine(lines[1]) IN
      [headers |-> headers,
       rows |-> [k \in 1..(Len(lines) - 1) |-> BuildRow(headers, SplitLine(lines[k + 1]))]]

(***************************************************************************)
(* The parser pipeline: a CSV text has been received, then it is parsed.   *)
(***************************************************************************)
TextAlphabet == {"a", "1", COMMA, QUOTE, LF, CR}

ExampleTexts ==
  { <<"a", ",", "\"", "b", ",", "c", "\"", ",", "d">>,
    <<"a", ",", "1", "\n", "1", ",", "a">>,
    <<"a", ",", "a", "\n", "1", ",", "a">>,
    <<"h", "\r", "\n", "4", "2", "\n", "4", "2", "a", "b", "c", "\n", " ", "\n">>,
    <<"a", ",", "1", "\r", "\n", "\r", "\n", "1", "\n", " ", "\t", "\n", "a", ",", "a", ",", "1", "\n">>,
    <<"h", "\n", "-", "0", "1", ".", "5", "0", "\n", ".", "\n", "+", "7", ".">>,
    <<"a", ",", "b", "\n", "1", ",", "\"", "x", ",", "y", "\n", "2", ",", "3">> }

Texts == StringsUpTo(TextAlphabet, MaxLen) \cup ExampleTexts

NoTable == [headers |-> <<>>, rows |-> <<>>]

\* findCol's "not found" (undefined) and a found header.
NotFound == [found |-> FALSE, header |-> <<>>]
Found(h) == [found |-> TRUE, header |-> h]

\* The parts of the state a specification does not use stay at these values.
CsvIdle == csvText = <<>> /\ table = NoTable

ThirdIdle == cmpC = Str(<<>>) /\ cmpBC = FALSE /\ cmpAC = FALSE /\ cmpStored = FALSE

CmpIdle == cmpA = Str(<<>>) /\ cmpB = Str(<<>>) /\ cmpResult = FALSE /\ ThirdIdle

ColIdle ==
  /\ colHeaders = <<>>
  /\ colAliases = <<>>
  /\ colRow = EmptyRow
  /\ colFound = NotFound
  /\ colValue = Num(<<"0">>)

\* The filter value 'All', and the filters as the App component starts.
All == <<"A", "l", "l">>

ViewIdle ==
  /\ selectedPlatform = All
  /\ selectedBuild = All
  /\ startDate = <<>>
  /\ endDate = <<>>
  /\ filteredRows = <<>>

\* TABS_CONFIG, in the order of Object.values; overrideUrl says whether the
\* tab has one.
TABS_CONFIG ==
  << [id |-> "summary", label |-> <<"R", "e", "p", "o", "r", "t", " ", "S", "u", "m", "m", "a", "r", "y">>,
      gid |-> "0", overrideUrl |-> FALSE],
     [id |-> "new_issues", label |-> <<"N", "e", "w", " ", "I", "s", "s", "u", "e", "s">>,
      gid |-> "476295067", overrideUrl |-> TRUE],
     [id |-> "validation", label |-> <<"T", "i", "c", "k", "e", "t", " ", "V", "a", "l", "i", "d", "a", "t", "i", "o", "n">>,
      gid |-> "2057375142", overrideUrl |-> TRUE] >>

TabIds == {TABS_CONFIG[i].id : i \in 1..Len(TABS_CONFIG)}

\* dataMap[tabId] before any table is stored (undefined), and a stored table.
NoData == [loaded |-> FALSE, data |-> NoTable]
Loaded(t) == [loaded |-> TRUE, data |-> t]

\* errorMap[tabId] when no message is shown (undefined or null).
NoError == <<>>

\* The App component as it is constructed: the maps are {} (a missing
\* loadingMap entry reads as false, a missing gid as ""), nothing in flight.
\* The refresh timer as the App is mounted: no tick yet, refreshProgress 0.
TimerIdle == ticks = 0 /\ refreshProgress = 0

AppIdle ==
  /\ dataMap = [t \in TabIds |-> NoData]
  /\ loadingMap = [t \in TabIds |-> FALSE]
  /\ errorMap = [t \in TabIds |-> NoError]
  /\ dynamicGidMap = [t \in TabIds |-> ""]
  /\ discoveredTabs = <<>>
  /\ calls = <<>>
  /\ TimerIdle

Init ==
  /\ csvText \in Texts
  /\ table = NoTable
  /\ pc = "fetched"
  /\ CmpIdle
  /\ ColIdle
  /\ ViewIdle
  /\ AppIdle

\* const parsed = parseCSV(text)
Parse ==
  /\ pc = "fetched"
  /\ table' = ParseCSV(csvText)
  /\ pc' = "parsed"
  /\ UNCHANGED <<csvText, cmpVars, colVars, viewVars, appVars, timerVars>>

Next == Parse

Spec == Init /\ [][Next]_vars

(***************************************************************************)
(* smartCompare                                                            *)
(***************************************************************************)
Undefined == [type |-> "undefined", text |-> <<"u", "n", "d", "e", "f", "i", "n", "e", "d">>]

\* !v for a cell value: "", 0, NaN and undefined are falsy.
IsFalsy(v) ==
  \/ v.type = "undefined"
  \/ v.type = "string" /\ v.text = <<>>
  \/ v.type = "number" /\ v.text \in {<<"0">>, <<"N", "a", "N">>}

\* String(a || '').trim()
TrimmedString(v) == IF IsFalsy(v) THEN <<>> ELSE Trim(v.text)

\* The alternatives of the prefix pattern, in the order the regex tries them.
PrefixWords ==
  << <<"r", "c">>, <<"b", "u", "i", "l", "d">>, <<"v">>, <<"v", "e", "r">>,
     <<"v", "e", "r", "s", "i", "o", "n">> >>

\* w matches at the start of s, ignoring case.
StartsWithIgnoreCase(s, w) ==
  Len(s) >= Len(w) /\ ToLowerCase(SubSeq(s, 1, Len(w))) = w

\* [\s:.-]
IsPrefixSeparator(c) == IsSpace(c) \/ c \in {":", ".", "-"}

RECURSIVE SkipSeparators(_)
SkipSeparators(s) ==
  IF s # <<>> /\ IsPrefixSeparator(s[1]) THEN SkipSeparators(Tail(s)) ELSE s

\* Variant of RemovePrefix: prefixes are removed until none is left.
RECURSIVE RemovePrefix_all(_)
RemovePrefix_all(s) ==
  IF \E k \in 1..Len(PrefixWords) : StartsWithIgnoreCase(s, PrefixWords[k])
    THEN LET k == CHOOSE m \in 1..Len(PrefixWords) :
                    /\ StartsWithIgnoreCase(s, PrefixWords[m])
                    /\ \A n \in 1..(m - 1) : ~StartsWithIgnoreCase(s, PrefixWords[n])
         IN RemovePrefix_all(SkipSeparators(SubSeq(s, Len(PrefixWords[k]) + 1, Len(s))))
    ELSE s

\* s.replace(/^(rc|build|v|ver|version)[\s:.-]*/i, ''): the first alternative
\* that matches is taken, since the separator class may match nothing.
RemovePrefix(s) ==
  IF \E k \in 1..Len(PrefixWords) : StartsWithIgnoreCase(s, PrefixWords[k])
    THEN LET k == CHOOSE m \in 1..Len(PrefixWords) :
                    /\ StartsWithIgnoreCase(s, PrefixWords[m])
                    /\ \A n \in 1..(m - 1) : ~StartsWithIgnoreCase(s, PrefixWords[n])
         IN SkipSeparators(SubSeq(s, Len(PrefixWords[k]) + 1, Len(s)))
    ELSE s

\* clean
Clean(s) == Trim(RemovePrefix(s))

\* isVersion: /^[\d.]+$/
IsVersion(s) == s # <<>> /\ \A i \in 1..Len(s) : IsDigit(s[i]) \/ s[i] = "."

\* s.split('.')
RECURSIVE SplitDotsFrom(_, _, _, _)
SplitDotsFrom(s, i, acc, cur) ==
  IF i > Len(s) THEN Append(acc, cur)
  ELSE IF s[i] = "." THEN SplitDotsFrom(s, i + 1, Append(acc, cur), <<>>)
  ELSE SplitDotsFrom(s, i + 1, acc, Append(cur, s[i]))

SplitDots(s) == SplitDotsFrom(s, 1, <<>>, <<>>)

\* Number(seg) for a segment of digits; Number("") is 0.
RECURSIVE SegmentNumber(_)
SegmentNumber(seg) ==
  IF seg = <<>> THEN 0
  ELSE 10 * SegmentNumber(SubSeq(seg, 1, Len(seg) - 1)) + DigitVal(seg[Len(seg)])

\* ca.split('.').map(Number)
Segments(s) == [i \in 1..Len(SplitDots(s)) |-> SegmentNumber(SplitDots(s)[i])]

\* Variant of PopTrailingZeros: nothing is popped.
PopTrailingZeros_none(seq) == seq

\* while (split.length > 0 && split[split.length - 1] === 0) split.pop()
RECURSIVE PopTrailingZeros(_)
PopTrailingZeros(seq) ==
  IF Len(seq) > 0 /\ seq[Len(seq)] = 0
    THEN PopTrailingZeros(SubSeq(seq, 1, Len(seq) - 1))
    ELSE seq

\* Variant of VersionEqual: the length test is missing; splitB[i] is
\* undefined past the end of splitB.
VersionEqual_noLengthTest(ca, cb) ==
  LET splitA == PopTrailingZeros(Segments(ca))
      splitB == PopTrailingZeros(Segments(cb))
  IN \A i \in 1..Len(splitA) : i <= Len(splitB) /\ splitA[i] = splitB[i]

\* Variant of VersionEqual: the segments agree as far as the shorter list goes.
VersionEqual_commonPrefix(ca, cb) ==
  LET splitA == PopTrailingZeros(Segments(ca))
      splitB == PopTrailingZeros(Segments(cb))
  IN \A i \in 1..Len(splitA) : i <= Len(splitB) => splitA[i] = splitB[i]

\* The version segment comparison of two cleaned version strings.
VersionEqual(ca, cb) ==
  LET splitA == PopTrailingZeros(Segments(ca))
      splitB == PopTrailingZeros(Segments(cb))
  IN IF Len(splitA) # Len(splitB) THEN FALSE
     ELSE \A i \in 1..Len(splitA) : splitA[i] = splitB[i]

\* Variant of SmartCompare: the comparisons are case-sensitive.
SmartCompare_caseSensitive(a, b) ==
  LET sa == TrimmedString(a)
      sb == TrimmedString(b)
      ca == Clean(sa)
      cb == Clean(sb)
  IN IF sa = <<>> \/ sb = <<>> THEN FALSE
     ELSE IF sa = sb THEN TRUE
     ELSE IF ca = cb THEN TRUE
     ELSE IF IsVersion(ca) /\ IsVersion(cb) THEN VersionEqual(ca, cb)
     ELSE FALSE

\* Variant of SmartCompare: the empty guard is missing.
SmartCompare_noEmptyGuard(a, b) ==
  LET sa == TrimmedString(a)
      sb == TrimmedString(b)
      ca == Clean(sa)
      cb == Clean(sb)
  IN IF sa = sb THEN TRUE
     ELSE IF ToLowerCase(sa) = ToLowerCase(sb) THEN TRUE
     ELSE IF ca = cb THEN TRUE
     ELSE IF ToLowerCase(ca) = ToLowerCase(cb) THEN TRUE
     ELSE IF IsVersion(ca) /\ IsVersion(cb) THEN VersionEqual(ca, cb)
     ELSE FALSE

SmartCompare(a, b) ==
  LET sa == TrimmedString(a)
      sb == TrimmedString(b)
      ca == Clean(sa)
      cb == Clean(sb)
  IN IF sa = <<>> \/ sb = <<>> THEN FALSE
     ELSE IF sa = sb THEN TRUE
     ELSE IF ToLowerCase(sa) = ToLowerCase(sb) THEN TRUE
     ELSE IF ca = cb THEN TRUE
     ELSE IF ToLowerCase(ca) = ToLowerCase(cb) THEN TRUE
     ELSE IF IsVersion(ca) /\ IsVersion(cb) THEN VersionEqual(ca, cb)
     ELSE FALSE

(***************************************************************************)
(* The comparator applied to a pair of build labels: a label is an         *)
(* optional prefix word, an optional separator and a body of digits and    *)
(* dots, or one of the listed labels and cell values.                      *)
(***************************************************************************)
LabelPrefixes == {<<>>} \cup Range(PrefixWords)

LabelSeparators == {<<>>, <<" ">>}

LabelBodies == StringsUpTo({"0", "1", "."}, MaxBody)

ExampleLabels ==
  { <<"R", "C", " ", "1", ".", "0", ".", "0">>,
    <<"B", "u", "i", "l", "d", " ", "1">>,
    <<"V", "e", "r", "s", "i", "o", "n", " ", "1", ".", "0">>,
    <<"B", "u", "i", "l", "d", " ", "A">>,
    <<"b", "u", "i", "l", "d", " ", "a">>,
    <<"v", "2", ".", "1">>,
    <<"2", ".", "1", ".", "0">>,
    <<"1", ".", "2">>,
    <<"1", ".", "3">>,
    <<"1", ".", "1", "0">>,
    <<"1", ".", "0", ".", "0">>,
    <<"1", ".", "0">>,
    <<"1", ".", "1">>,
    <<" ", "\t">>,
    <<"i", "O", "S">>,
    <<"r", "c", "-", "1", " ">>,
    <<"R", "C", " ", "1">>,
    <<" ", "b", "u", "i", "l", "d", " ", "a", "\t">>,
    <<"R", "C", " ", "R", "C", " ", "1", ".", "0">>,
    <<"r", "c", " ", "r", "c", " ", "1">>,
    <<"a", " ", "r", "c", " ", "1">> }

Labels ==
  {p \o sep \o body : p \in LabelPrefixes, sep \in LabelSeparators, body \in LabelBodies}
    \cup ExampleLabels

CompareInputs ==
  {Str(l) : l \in Labels}
    \cup {Num(<<"0">>), Num(<<"1">>), Num(<<"1", ".", "1">>), Num(<<"N", "a", "N">>), Undefined}

CmpInit ==
  /\ cmpA \in CompareInputs
  /\ cmpB \in CompareInputs
  /\ cmpResult = FALSE
  /\ ThirdIdle
  /\ pc = "compare"
  /\ CsvIdle
  /\ ColIdle
  /\ ViewIdle
  /\ AppIdle

\* smartCompare(a, b)
Compare ==
  /\ pc = "compare"
  /\ cmpResult' = SmartCompare(cmpA, cmpB)
  /\ pc' = "compared"
  /\ UNCHANGED <<csvVars, cmpA, cmpB, cmpC, cmpBC, cmpAC, cmpStored, colVars, viewVars, appVars, timerVars>>

CmpNext == Compare

CmpSpec == CmpInit /\ [][CmpNext]_vars

(***************************************************************************)
(* The comparator applied to the three pairs of three build labels, as     *)
(* when the rows of a table are compared with a selected build and the     *)
(* builds with each other.                                                 *)
(***************************************************************************)
ChainPrefixes == {<<>>, <<"v">>, <<"R", "C", " ">>, <<"B", "u", "i", "l", "d", "-">>}

ChainBodies == StringsUpTo({"0", "1", "."}, MaxChainBody)

ChainExamples ==
  { <<"1", ".", "0">>, <<"1", ".", "0", ".", "0">>, <<"R", "C", " ", "0", "1">>, <<"B", "u", "i", "l", "d", " ", "A">>,
    <<"b", "u", "i", "l", "d", " ", "a">>, <<"r", "c">>, <<"B", "u", "i", "l", "d">>, <<"i", "O", "S">>,
    <<" ">>, <<"v", "2", ".", "1", "0">>,
    <<"v", "2">>, <<"2", ".", "1">> }

ChainLabels == {p \o b : p \in ChainPrefixes, b \in ChainBodies} \cup ChainExamples

ChainInit ==
  /\ cmpA \in {Str(l) : l \in ChainLabels}
  /\ cmpB \in {Str(l) : l \in ChainLabels}
  /\ cmpC \in {Str(l) : l \in ChainLabels}
  /\ cmpResult = FALSE
  /\ cmpBC = FALSE
  /\ cmpAC = FALSE
  /\ cmpStored = FALSE
  /\ pc = "compare"
  /\ CsvIdle
  /\ ColIdle
  /\ ViewIdle
  /\ AppIdle

\* smartCompare(a, b), smartCompare(b, c), smartCompare(a, c)
CompareChain ==
  /\ pc = "compare"
  /\ cmpResult' = SmartCompare(cmpA, cmpB)
  /\ cmpBC' = SmartCompare(cmpB, cmpC)
  /\ cmpAC' = SmartCompare(cmpA, cmpC)
  /\ pc' = "compared"
  /\ UNCHANGED <<csvVars, cmpA, cmpB, cmpC, cmpStored, colVars, viewVars, appVars, timerVars>>

ChainNext == CompareChain

ChainSpec == ChainInit /\ [][ChainNext]_vars

(***************************************************************************)
(* findCol, getVal, getValByAliases                                        *)
(***************************************************************************)

\* x.includes(y)
Includes(x, y) ==
  \E o \in 0..(Len(x) - Len(y)) : SubSeq(x, o + 1, o + Len(y)) = y

\* aliases.some(a => a.toLowerCase() === h.toLowerCase().trim())
HeaderMatches(h, aliases) ==
  \E j \in 1..Len(aliases) : ToLowerCase(aliases[j]) = Trim(ToLowerCase(h))

\* headers.find(...), from position i on.
RECURSIVE FindFrom(_, _, _)
FindFrom(headers, aliases, i) ==
  IF i > Len(headers) THEN NotFound
  ELSE IF HeaderMatches(headers[i], aliases) THEN Found(headers[i])
  ELSE FindFrom(headers, aliases, i + 1)

\* Variant of FindCol: a header that contains an alias also matches.
FindCol_substring(headers, aliases) ==
  IF \E i \in 1..Len(headers) : \E j \in 1..Len(aliases) :
       Includes(Trim(ToLowerCase(headers[i])), ToLowerCase(aliases[j]))
    THEN Found(headers[CHOOSE i \in 1..Len(headers) :
           /\ \E j \in 1..Len(aliases) :
                Includes(Trim(ToLowerCase(headers[i])), ToLowerCase(aliases[j]))
           /\ \A m \in 1..(i - 1) : \A j \in 1..Len(aliases) :
                ~Includes(Trim(ToLowerCase(headers[m])), ToLowerCase(aliases[j]))])
    ELSE NotFound

\* Variant of FindCol: the aliases are tried in their order, the first alias
\* that some header matches decides.
FindCol_aliasPriority(headers, aliases) ==
  IF \E j \in 1..Len(aliases) : FindFrom(headers, <<aliases[j]>>, 1).found
    THEN FindFrom(headers,
           <<aliases[CHOOSE j \in 1..Len(aliases) :
                       /\ FindFrom(headers, <<aliases[j]>>, 1).found
                       /\ \A m \in 1..(j - 1) : ~FindFrom(headers, <<aliases[m]>>, 1).found]>>,
           1)
    ELSE NotFound

FindCol(headers, aliases) ==
  IF Len(headers) = 0 THEN NotFound ELSE FindFrom(headers, aliases, 1)

\* Number(cell) || 0
NumberOrZero(cell) ==
  IF cell.type = "number"
    THEN (IF cell.text = <<"N", "a", "N">> THEN Num(<<"0">>) ELSE cell)
  ELSE IF cell.type = "string" /\ ~IsNaNStr(cell.text) THEN NumberOf(cell.text)
  ELSE Num(<<"0">>)

\* Variant of GetVal: the "|| 0" default is missing.
GetVal_noDefault(row, col) ==
  IF ~col.found \/ col.header = <<>> \/ col.header \notin DOMAIN row THEN Num(<<"0">>)
  ELSE IF row[col.header].type = "number" THEN row[col.header]
  ELSE IF ~IsNaNStr(row[col.header].text) THEN NumberOf(row[col.header].text)
  ELSE Num(<<"N", "a", "N">>)

GetVal(row, col) ==
  IF ~col.found \/ col.header = <<>> \/ col.header \notin DOMAIN row THEN Num(<<"0">>)
  ELSE NumberOrZero(row[col.header])

GetValByAliases(row, headers, aliases) == GetVal(row, FindCol(headers, aliases))

(***************************************************************************)
(* Column resolution and value extraction on a record: getValByAliases     *)
(* resolves the column, then extracts the value.                           *)
(***************************************************************************)
HeaderPool == { <<"P", "a", "s", "s">>, <<"p", "a", "s", "s", " ">>, <<"P", "a", "s", "s", "e", "d">>, <<"F", "a", "i", "l">> }

AliasPool == { <<"P", "a", "s", "s">>, <<"P", "A", "S", "S", "E", "D">>, <<"f", "a", "i", "l">> }

\* The fields of the data line the record is built from.
DataLines == { <<"7", ",", "x", ",">>, <<"x", ",", "0", ",", "2", ".", "5", "0">>, <<" ">> }

ColInit ==
  /\ colHeaders \in StringsUpTo(HeaderPool, MaxHeaders)
  /\ colAliases \in StringsUpTo(AliasPool, MaxAliases)
  /\ \E line \in DataLines : colRow = BuildRow(colHeaders, SplitLine(line))
  /\ colFound = NotFound
  /\ colValue = Num(<<"0">>)
  /\ pc = "resolve"
  /\ CsvIdle
  /\ CmpIdle
  /\ ViewIdle
  /\ AppIdle

\* const col = findCol(headers, aliases)
FindColumn ==
  /\ pc = "resolve"
  /\ colFound' = FindCol(colHeaders, colAliases)
  /\ pc' = "resolved"
  /\ UNCHANGED <<csvVars, cmpVars, colHeaders, colAliases, colRow, colValue, viewVars, appVars, timerVars>>

\* return getVal(row, col)
GetValue ==
  /\ pc = "resolved"
  /\ colValue' = GetVal(colRow, colFound)
  /\ pc' = "extracted"
  /\ UNCHANGED <<csvVars, cmpVars, colHeaders, colAliases, colRow, colFound, viewVars, appVars, timerVars>>

ColNext == FindColumn \/ GetValue

ColSpec == ColInit /\ [][ColNext]_vars

(***************************************************************************)
(* filteredRows of the active tab                                          *)
(***************************************************************************)
BUILD_COL_ALIASES ==
  << <<"R", "C", " ", "B", "u", "i", "l", "d">>,
     <<"B", "u", "i", "l", "d", " ", "V", "e", "r", "s", "i", "o", "n">>,
     <<"B", "u", "i", "l", "d">>,
     <<"V", "e", "r", "s", "i", "o", "n">>,
     <<"B", "u", "i", "l", "d", " ", "N", "u", "m", "b", "e", "r">>,
     <<"R", "e", "l", "e", "a", "s", "e", " ", "B", "u", "i", "l", "d">>,
     <<"B", "u", "i", "l", "d", " ", "d", "e", "t", "a", "i", "l", "s">> >>

PLATFORM_COL_ALIASES ==
  << <<"P", "l", "a", "t", "f", "o", "r", "m">>,
     <<"O", "S">>,
     <<"E", "n", "v", "i", "r", "o", "n", "m", "e", "n", "t">>,
     <<"D", "e", "v", "i", "c", "e">> >>

DATE_COL_ALIASES ==
  << <<"B", "u", "i", "l", "d", " ", "D", "a", "t", "e">>,
     <<"D", "a", "t", "e">>,
     <<"R", "e", "p", "o", "r", "t", "e", "d", " ", "D", "a", "t", "e">>,
     <<"C", "r", "e", "a", "t", "e", "d", " ", "A", "t">>,
     <<"S", "t", "a", "r", "t", " ", "D", "a", "t", "e">> >>

\* new Date(text) for the texts of the model: a calendar date YYYY-MM-DD
\* gives its time value (here a number that orders the dates), any other
\* text of the model is not a date and gives NaN.
IsLeapYear(y) == (y % 4 = 0 /\ y % 100 # 0) \/ y % 400 = 0

DaysInMonth(y, m) ==
  IF m = 2 THEN (IF IsLeapYear(y) THEN 29 ELSE 28)
  ELSE IF m \in {4, 6, 9, 11} THEN 30 ELSE 31

RECURSIVE DigitsValue(_)
DigitsValue(s) ==
  IF s = <<>> THEN 0 ELSE 10 * DigitsValue(SubSeq(s, 1, Len(s) - 1)) + DigitVal(s[Len(s)])

IsCalendarDate(s) ==
  /\ Len(s) = 10
  /\ s[5] = "-" /\ s[8] = "-"
  /\ \A i \in {1, 2, 3, 4, 6, 7, 9, 10} : IsDigit(s[i])
  /\ DigitsValue(SubSeq(s, 6, 7)) \in 1..12
  /\ DigitsValue(SubSeq(s, 9, 10)) \in
       1..DaysInMonth(DigitsValue(SubSeq(s, 1, 4)), DigitsValue(SubSeq(s, 6, 7)))

NaNTime == -1

TimeValue(s) ==
  IF IsCalendarDate(s)
    THEN DigitsValue(SubSeq(s, 1, 4)) * 10000 + DigitsValue(SubSeq(s, 6, 7)) * 100
         + DigitsValue(SubSeq(s, 9, 10))
    ELSE NaNTime

\* bd >= new Date(startDate) and bd <= new Date(endDate): false on NaN.
NotBefore(x, y) == x # NaNTime /\ y # NaNTime /\ x >= y
NotAfter(x, y) == x # NaNTime /\ y # NaNTime /\ x <= y

\* The date range filter of filteredRows.
DateFilter(headers, start, end, rows) ==
  LET dCol == FindCol(headers, DATE_COL_ALIASES)
      inRange(r) ==
        /\ ~IsFalsy(r[dCol.header])
        /\ start = <<>> \/ NotBefore(TimeValue(r[dCol.header].text), TimeValue(start))
        /\ end = <<>> \/ NotAfter(TimeValue(r[dCol.header].text), TimeValue(end))
  IN IF (start # <<>> \/ end # <<>>) /\ dCol.found /\ dCol.header # <<>>
       THEN SelectSeq(rows, inRange)
       ELSE rows

SUMMARY == "summary"

\* String(v || '').trim() of a cell, as the builds memo reads it.
CellString(v) == TrimmedString(v)

\* The builds memo: the build labels of the summary table for the selected
\* platform (the order of the list does not matter to its one use, some()).
Builds(summary, platform) ==
  LET pCol == FindCol(summary.headers, PLATFORM_COL_ALIASES)
      bCol == FindCol(summary.headers, BUILD_COL_ALIASES)
  IN IF ~bCol.found \/ bCol.header = <<>> THEN {}
     ELSE {CellString(summary.rows[k][bCol.header]) : k \in
             {k \in 1..Len(summary.rows) :
                /\ CellString(summary.rows[k][bCol.header]) # <<>>
                /\ \/ platform = All
                   \/ SmartCompare(
                        Str(IF pCol.found /\ pCol.header # <<>>
                              THEN CellString(summary.rows[k][pCol.header])
                              ELSE <<>>),
                        Str(platform))}}

\* Variant of FilteredRows: a selected platform is applied to the rows of the
\* selected build as well.
FilteredRows_platformToo(data, activeTab, platform, build, builds, start, end) ==
  LET pCol == FindCol(data.headers, PLATFORM_COL_ALIASES)
      bCol == FindCol(data.headers, BUILD_COL_ALIASES)
      hasP == pCol.found /\ pCol.header # <<>>
      hasB == bCol.found /\ bCol.header # <<>>
      byBuild(r) == SmartCompare(r[bCol.header], Str(build))
      byPlatform(r) == SmartCompare(r[pCol.header], Str(platform))
      byBoth(r) == byBuild(r) /\ (platform = All \/ ~hasP \/ byPlatform(r))
      byBuilds(r) == \E b \in builds : SmartCompare(r[bCol.header], Str(b))
  IN DateFilter(data.headers, start, end,
       IF build # All /\ hasB THEN SelectSeq(data.rows, byBoth)
       ELSE IF platform # All
         THEN (IF hasP THEN SelectSeq(data.rows, byPlatform)
               ELSE IF hasB /\ activeTab # SUMMARY THEN SelectSeq(data.rows, byBuilds)
               ELSE data.rows)
       ELSE data.rows)

\* Variant of FilteredRows: the build cell must be the selected text itself.
FilteredRows_exactMatch(data, activeTab, platform, build, builds, start, end) ==
  LET pCol == FindCol(data.headers, PLATFORM_COL_ALIASES)
      bCol == FindCol(data.headers, BUILD_COL_ALIASES)
      hasP == pCol.found /\ pCol.header # <<>>
      hasB == bCol.found /\ bCol.header # <<>>
      byBuild(r) == r[bCol.header] = Str(build)
      byPlatform(r) == SmartCompare(r[pCol.header], Str(platform))
      byBuilds(r) == \E b \in builds : SmartCompare(r[bCol.header], Str(b))
  IN DateFilter(data.headers, start, end,
       IF build # All /\ hasB THEN SelectSeq(data.rows, byBuild)
       ELSE IF platform # All
         THEN (IF hasP THEN SelectSeq(data.rows, byPlatform)
               ELSE IF hasB /\ activeTab # SUMMARY THEN SelectSeq(data.rows, byBuilds)
               ELSE data.rows)
       ELSE data.rows)

\* The filteredRows memo for the table of the active tab.
FilteredRows(data, activeTab, platform, build, builds, start, end) ==
  LET pCol == FindCol(data.headers, PLATFORM_COL_ALIASES)
      bCol == FindCol(data.headers, BUILD_COL_ALIASES)
      hasP == pCol.found /\ pCol.header # <<>>
      hasB == bCol.found /\ bCol.header # <<>>
      byBuild(r) == SmartCompare(r[bCol.header], Str(build))
      byPlatform(r) == SmartCompare(r[pCol.header], Str(platform))
      byBuilds(r) == \E b \in builds : SmartCompare(r[bCol.header], Str(b))
  IN DateFilter(data.headers, start, end,
       IF build # All /\ hasB THEN SelectSeq(data.rows, byBuild)
       ELSE IF platform # All
         THEN (IF hasP THEN SelectSeq(data.rows, byPlatform)
               ELSE IF hasB /\ activeTab # SUMMARY THEN SelectSeq(data.rows, byBuilds)
               ELSE data.rows)
       ELSE data.rows)

(***************************************************************************)
(* The summary sheet from text to filtered rows: the text is parsed, then  *)
(* filteredRows is computed for the selected filters (activeTab is the     *)
(* summary tab, its initial value).                                        *)
(***************************************************************************)
SheetHeader == <<"B", "u", "i", "l", "d", ",", "P", "l", "a", "t", "f", "o", "r", "m", ",", "P", "a", "s", "s", "e", "d", ",", "F", "a", "i", "l", "e", "d">>

SheetLines ==
  { <<"\"", "R", "C", " ", "1", ".", "0", "\"", ",", "i", "O", "S", ",", "1", "0", ",", "2">>,
    <<"R", "C", " ", "1", ".", "0", ".", "0", ",", "A", "n", "d", "r", "o", "i", "d", ",", "8", ",", "1">>,
    <<"v", "2", ",", "i", "O", "S", ",", "0", ",", "0">>,
    <<"1", ".", "1", "0", ",", "A", "n", "d", "r", "o", "i", "d", ",", "1", ",", "1">> }

\* The header line followed by the data lines, one LF before each data line.
RECURSIVE JoinLines(_, _)
JoinLines(head, lines) ==
  IF lines = <<>> THEN head
  ELSE JoinLines(head \o <<LF>> \o lines[1], Tail(lines))

\* A sheet with a date column.
DatedHeader == <<"B", "u", "i", "l", "d", ",", "P", "l", "a", "t", "f", "o", "r", "m", ",", "D", "a", "t", "e">>

DatedLines ==
  { <<"1", ".", "0", ",", "i", "O", "S", ",", "2", "0", "2", "4", "-", "0", "1", "-", "0", "1">>,
    <<"R", "C", " ", "1", ".", "0", ".", "0", ",", "A", "n", "d", "r", "o", "i", "d", ",", "2", "0", "2", "4", "-", "0", "1", "-", "0", "3">>,
    <<"1", ".", "0", ",", "i", "O", "S", ",">>,
    <<"2", ",", "i", "O", "S", ",", "n", "/", "a">> }

SheetTexts ==
  {JoinLines(SheetHeader, ls) : ls \in StringsUpTo(SheetLines, MaxDataLines)}
  \cup {JoinLines(DatedHeader, ls) : ls \in StringsUpTo(DatedLines, MaxDataLines)}

BuildChoices == {All, <<"1", ".", "0", ".", "0">>, <<"2">>}

PlatformChoices == {All, <<"i", "O", "S">>}

\* '' or a date picked in the Calendar (toISOString().split('T')[0]).
DateChoices == {<<>>, <<"2", "0", "2", "4", "-", "0", "1", "-", "0", "2">>}

ViewInit ==
  /\ csvText \in SheetTexts
  /\ table = NoTable
  /\ selectedBuild \in BuildChoices
  /\ selectedPlatform \in PlatformChoices
  /\ startDate \in DateChoices
  /\ endDate \in DateChoices
  /\ filteredRows = <<>>
  /\ pc = "fetched"
  /\ CmpIdle
  /\ ColIdle
  /\ AppIdle

\* const filteredRows = useMemo(...)
Filter ==
  /\ pc = "parsed"
  /\ filteredRows' = FilteredRows(table, SUMMARY, selectedPlatform, selectedBuild,
                                  Builds(table, selectedPlatform), startDate, endDate)
  /\ pc' = "filtered"
  /\ UNCHANGED <<csvVars, cmpVars, colVars, selectedPlatform, selectedBuild,
                 startDate, endDate, appVars, timerVars>>

ViewNext == Parse \/ Filter

ViewSpec == ViewInit /\ [][ViewNext]_vars

(***************************************************************************)
(* Fetching the tabs: fetchData, discoverGids, syncAll                     *)
(***************************************************************************)
\* (TABS_CONFIG as any)[tabId.toUpperCase()] || ...find(t => t.id === tabId)
Config(tabId) == TABS_CONFIG[CHOOSE i \in 1..Len(TABS_CONFIG) : TABS_CONFIG[i].id = tabId]

\* The gid of the request url, read from the dynamicGidMap of the closure.
RequestGid(tabId, gidMap) ==
  IF Config(tabId).overrideUrl THEN Config(tabId).gid
  ELSE IF gidMap[tabId] # "" THEN gidMap[tabId]
  ELSE Config(tabId).gid

\* A fetchData call up to its first await: the request is in flight.
StartCall(tabId, silent, gidMap) ==
  [tabId |-> tabId, silent |-> silent, retryDiscovery |-> TRUE,
   gid |-> RequestGid(tabId, gidMap), pc |-> "fetch", text |-> <<>>]

\* The bodies a sheet export can answer with.
FetchTexts ==
  { <<"a", LF, "1">>, <<"a", LF, "2">> }

\* What await fetch(url) and await resp.text() can give: a body, an error
\* status, or a rejection.
Responses ==
  {[rejected |-> FALSE, ok |-> TRUE, status |-> 200, text |-> t] : t \in FetchTexts}
  \cup {[rejected |-> FALSE, ok |-> FALSE, status |-> st, text |-> <<>>] : st \in {404, 500}}
  \cup {[rejected |-> TRUE, ok |-> FALSE, status |-> 0, text |-> <<>>]}

\* e.message of the Error thrown for a response that is not ok, and of a
\* rejected request.
InvalidSource(tabId) == <<"Invalid source configuration. Tab was not found.", tabId>>
RequestFailed == <<"Failed to fetch">>

\* What discoverGids can return: null, or the sheet names with their gids in
\* the order they were found.
DiscoveryResults ==
  { [ok |-> FALSE, tabMap |-> <<>>],
    [ok |-> TRUE, tabMap |-> <<>>],
    [ok |-> TRUE, tabMap |-> << [name |-> <<"S", "h", "e", "e", "t", "1">>, gid |-> "3"] >>],
    [ok |-> TRUE, tabMap |-> << [name |-> <<"S", "h", "e", "e", "t", "1">>, gid |-> "3"],
                                [name |-> <<"S", "u", "m", "m", "a", "r", "y">>, gid |-> "7"] >>] }

\* s.toLowerCase().replace(/\s/g, '')
Squash(s) == SelectSeq(ToLowerCase(s), LAMBDA c : ~IsSpace(c))

NameMatches(name, label) ==
  \/ Squash(name) = Squash(label)
  \/ Includes(Squash(name), Squash(label))
  \/ Includes(Squash(label), Squash(name))

\* Object.keys(tabs).find(...): the index of the first matching name, 0 if none.
FoundName(tabMap, label) ==
  IF \E i \in 1..Len(tabMap) : NameMatches(tabMap[i].name, label)
    THEN CHOOSE i \in 1..Len(tabMap) :
           /\ NameMatches(tabMap[i].name, label)
           /\ \A j \in 1..(i - 1) : ~NameMatches(tabMap[j].name, label)
    ELSE 0

\* A fetchData call that has settled: its table stored, or an error caught.
StoredCall(tabId, silent, gidMap, text) ==
  [StartCall(tabId, silent, gidMap) EXCEPT !.pc = "stored", !.text = text]

FailedCall(tabId, silent, gidMap) ==
  [StartCall(tabId, silent, gidMap) EXCEPT !.pc = "failed"]

\* The body the sheets answered with when the App was mounted.
MountText == <<"a", LF, "1">>

\* The App once syncAll() of the mount effect has settled: for every tab the
\* call has stored the table of MountText, or has failed on a response that
\* was not ok (other than 400 and 404) and left its error message.
AppInit ==
  /\ \E failed \in SUBSET TabIds :
       /\ calls = [i \in 1..Len(TABS_CONFIG) |->
                     IF TABS_CONFIG[i].id \in failed
                       THEN FailedCall(TABS_CONFIG[i].id, FALSE, [t \in TabIds |-> ""])
                       ELSE StoredCall(TABS_CONFIG[i].id, FALSE, [t \in TabIds |-> ""],
                                       MountText)]
       /\ dataMap = [t \in TabIds |->
                       IF t \in failed THEN NoData ELSE Loaded(ParseCSV(MountText))]
       /\ errorMap = [t \in TabIds |->
                        IF t \in failed THEN InvalidSource(t) ELSE NoError]
  /\ loadingMap = [t \in TabIds |-> FALSE]
  /\ dynamicGidMap = [t \in TabIds |-> ""]
  /\ discoveredTabs = <<>>
  /\ TimerIdle
  /\ pc = "app"
  /\ CsvIdle
  /\ CmpIdle
  /\ ColIdle
  /\ ViewIdle

\* syncAll(isAuto): fetchData(t.id, isAuto) for every tab, each up to its
\* first await.
StartSync(isAuto) ==
  /\ calls' = calls \o [i \in 1..Len(TABS_CONFIG) |->
                          StartCall(TABS_CONFIG[i].id, isAuto, dynamicGidMap)]
  /\ loadingMap' = IF isAuto THEN loadingMap ELSE [t \in TabIds |-> TRUE]
  /\ errorMap' = IF isAuto THEN errorMap ELSE [t \in TabIds |-> NoError]
  /\ UNCHANGED <<dataMap, dynamicGidMap, discoveredTabs>>

\* The Sync button, or an automatic refresh.
SyncAll(isAuto) ==
  /\ pc = "app"
  /\ Len(calls) + Len(TABS_CONFIG) <= MaxCalls
  /\ StartSync(isAuto)
  /\ UNCHANGED <<csvVars, pc, cmpVars, colVars, viewVars, timerVars>>

\* onRetry of the Card of the active tab, shown while the tab has an error:
\* fetchData(activeTab).
Retry(tabId) ==
  /\ pc = "app"
  /\ errorMap[tabId] # NoError
  /\ Len(calls) < MaxCalls
  /\ calls' = Append(calls, StartCall(tabId, FALSE, dynamicGidMap))
  /\ loadingMap' = [loadingMap EXCEPT ![tabId] = TRUE]
  /\ errorMap' = [errorMap EXCEPT ![tabId] = NoError]
  /\ UNCHANGED <<dataMap, dynamicGidMap, discoveredTabs>>
  /\ UNCHANGED <<csvVars, pc, cmpVars, colVars, viewVars, timerVars>>

\* catch and finally of call c for the error message msg.
Fails(c, msg) ==
  /\ calls' = [calls EXCEPT ![c].pc = "failed"]
  /\ errorMap' = IF calls[c].silent THEN errorMap
                 ELSE [errorMap EXCEPT ![calls[c].tabId] = msg]
  /\ loadingMap' = IF calls[c].silent THEN loadingMap
                   ELSE [loadingMap EXCEPT ![calls[c].tabId] = FALSE]
  /\ UNCHANGED dataMap

\* Variant of Stores: the new rows are added to the rows already stored.
Stores_merge(c, text) ==
  /\ calls' = [calls EXCEPT ![c].pc = "stored", ![c].text = text]
  /\ dataMap' = [dataMap EXCEPT ![calls[c].tabId] =
                   Loaded([headers |-> ParseCSV(text).headers,
                           rows |-> @.data.rows \o ParseCSV(text).rows])]
  /\ loadingMap' = IF calls[c].silent THEN loadingMap
                   ELSE [loadingMap EXCEPT ![calls[c].tabId] = FALSE]
  /\ UNCHANGED errorMap

\* parseCSV(text), setDataMap and finally of call c.
Stores(c, text) ==
  /\ calls' = [calls EXCEPT ![c].pc = "stored", ![c].text = text]
  /\ dataMap' = [dataMap EXCEPT ![calls[c].tabId] = Loaded(ParseCSV(text))]
  /\ loadingMap' = IF calls[c].silent THEN loadingMap
                   ELSE [loadingMap EXCEPT ![calls[c].tabId] = FALSE]
  /\ UNCHANGED errorMap

\* The request of call c is answered: the rest of fetchData up to its next
\* await or its end (nothing is written between fetch and resp.text()).
Respond(c) ==
  /\ pc = "app"
  /\ calls[c].pc = "fetch"
  /\ \E r \in Responses :
       IF r.rejected
         THEN Fails(c, RequestFailed) /\ UNCHANGED <<dynamicGidMap, discoveredTabs>>
       ELSE IF r.ok
         THEN Stores(c, r.text) /\ UNCHANGED <<dynamicGidMap, discoveredTabs>>
       ELSE IF /\ r.status \in {400, 404}
               /\ calls[c].retryDiscovery
               /\ ~Config(calls[c].tabId).overrideUrl
         THEN /\ calls' = [calls EXCEPT ![c].pc = "discover"]
              /\ UNCHANGED <<dataMap, loadingMap, errorMap, dynamicGidMap, discoveredTabs>>
       ELSE Fails(c, InvalidSource(calls[c].tabId))
            /\ UNCHANGED <<dynamicGidMap, discoveredTabs>>
  /\ UNCHANGED <<csvVars, pc, cmpVars, colVars, viewVars, timerVars>>

\* discoverGids of call c returns.  When a sheet name matches the label the
\* gid is recorded and fetchData(tabId, silent, false) runs up to its first
\* await, with the dynamicGidMap of the same closure and so the same request
\* gid; the return is not awaited, so the finally of the outer call runs at
\* once, after the loading and error updates of the inner call.
Discovered(c) ==
  /\ pc = "app"
  /\ calls[c].pc = "discover"
  /\ \E d \in DiscoveryResults :
       LET tabId == calls[c].tabId
           found == FoundName(d.tabMap, Config(tabId).label)
       IN IF ~d.ok
            THEN Fails(c, InvalidSource(tabId)) /\ UNCHANGED <<dynamicGidMap, discoveredTabs>>
          ELSE IF found = 0
            THEN /\ Fails(c, InvalidSource(tabId))
                 /\ discoveredTabs' = d.tabMap
                 /\ UNCHANGED dynamicGidMap
          ELSE /\ discoveredTabs' = d.tabMap
               /\ dynamicGidMap' = [dynamicGidMap EXCEPT ![tabId] = d.tabMap[found].gid]
               /\ calls' = [calls EXCEPT ![c].retryDiscovery = FALSE, ![c].pc = "fetch"]
               /\ loadingMap' = IF calls[c].silent THEN loadingMap
                                ELSE [loadingMap EXCEPT ![tabId] = FALSE]
               /\ errorMap' = IF calls[c].silent THEN errorMap
                              ELSE [errorMap EXCEPT ![tabId] = NoError]
               /\ UNCHANGED dataMap
  /\ UNCHANGED <<csvVars, pc, cmpVars, colVars, viewVars, timerVars>>

AppNext ==
  \/ \E isAuto \in BOOLEAN : SyncAll(isAuto)
  \/ \E tabId \in TabIds : Retry(tabId)
  \/ \E c \in DOMAIN calls : Respond(c)
  \/ \E c \in DOMAIN calls : Discovered(c)

AppSpec == AppInit /\ [][AppNext]_vars

(***************************************************************************)
(* The refresh timer: the effect notes its start time and a one-second     *)
(* interval computes the progress from the time elapsed since then.  The   *)
(* effect is set up again only when syncAll or activeTab changes; here     *)
(* they do not, and the requests of the automatic refreshes stay pending.  *)
(***************************************************************************)
REFRESH_INTERVAL == 120000

TICK_MS == 1000

Min(x, y) == IF x <= y THEN x ELSE y

\* Math.min(((Date.now() - start) / REFRESH_INTERVAL) * 100, 100), its whole
\* part; Date.now() - start is the number of ticks times the tick period.
Progress(n) == Min((n * TICK_MS * 100) \div REFRESH_INTERVAL, 100)

\* The interval callback.
Tick ==
  /\ pc = "app"
  /\ ticks < MaxTicks
  /\ ticks' = ticks + 1
  /\ refreshProgress' = Progress(ticks')
  /\ IF Progress(ticks') >= 100 THEN StartSync(TRUE) ELSE UNCHANGED appVars
  /\ UNCHANGED <<csvVars, pc, cmpVars, colVars, viewVars>>

TimerNext == Tick

TimerSpec == AppInit /\ [][TimerNext]_vars

(***************************************************************************)
(* Two overlapping fetches of one tab: syncAll() of the mount effect is    *)
(* followed by a second syncAll (the Sync button, or the automatic         *)
(* refresh) while the request of one tab is still pending; the requests of *)
(* the other tabs have been answered.                                      *)
(***************************************************************************)
NoGids == [t \in TabIds |-> ""]

OverlapInit ==
  /\ \E slow \in TabIds, isAuto \in BOOLEAN :
       /\ calls = [i \in 1..(2 * Len(TABS_CONFIG)) |->
                     LET tab == TABS_CONFIG[((i - 1) % Len(TABS_CONFIG)) + 1].id
                         silent == i > Len(TABS_CONFIG) /\ isAuto
                     IN IF tab = slow THEN StartCall(tab, silent, NoGids)
                        ELSE StoredCall(tab, silent, NoGids, MountText)]
       /\ dataMap = [t \in TabIds |->
                       IF t = slow THEN NoData ELSE Loaded(ParseCSV(MountText))]
       /\ loadingMap = [t \in TabIds |-> t = slow]
  /\ errorMap = [t \in TabIds |-> NoError]
  /\ dynamicGidMap = NoGids
  /\ discoveredTabs = <<>>
  /\ TimerIdle
  /\ pc = "app"
  /\ CsvIdle
  /\ CmpIdle
  /\ ColIdle
  /\ ViewIdle

OverlapNext ==
  \/ \E c \in DOMAIN calls : Respond(c)
  \/ \E c \in DOMAIN calls : Discovered(c)

OverlapSpec == OverlapInit /\ [][OverlapNext]_vars

(***************************************************************************)
(* Two build cells compared as texts and as the values parseCSV stores for *)
(* them: a sheet with the two cells in its build column is parsed, then    *)
(* smartCompare is applied to the texts and to the stored values.          *)
(***************************************************************************)
CellHeader == <<"B", "u", "i", "l", "d", ",", "P", "l", "a", "t", "f", "o", "r", "m">>

CellRest == <<",", "i", "O", "S">>

CellExamples ==
  { <<"1", ".", "1">>, <<"1", ".", "1", "0">>, <<"R", "C", " ", "1">>, <<"0", "1">>, <<"1", ".", "0", ".", "0">>,
    <<"v", "2">>, <<"2">>, <<"i", "O", "S">> }

CellTexts == StringsUpTo({"0", "1", "."}, MaxBody) \cup CellExamples

CellInit ==
  /\ cmpA \in {Str(c) : c \in CellTexts}
  /\ cmpB \in {Str(c) : c \in CellTexts}
  /\ csvText = JoinLines(CellHeader, <<cmpA.text \o CellRest, cmpB.text \o CellRest>>)
  /\ table = NoTable
  /\ cmpResult = FALSE
  /\ ThirdIdle
  /\ pc = "fetched"
  /\ ColIdle
  /\ ViewIdle
  /\ AppIdle

\* smartCompare(a, b) on the two texts and on the cells of the two rows.
CompareCells ==
  /\ pc = "parsed"
  /\ cmpResult' = SmartCompare(cmpA, cmpB)
  /\ cmpStored' = SmartCompare(table.rows[1][BUILD_COL_ALIASES[3]],
                               table.rows[2][BUILD_COL_ALIASES[3]])
  /\ pc' = "compared"
  /\ UNCHANGED <<csvVars, cmpA, cmpB, cmpC, cmpBC, cmpAC, colVars, viewVars, appVars, timerVars>>

CellNext == Parse \/ CompareCells

CellSpec == CellInit /\ [][CellNext]_vars

(***************************************************************************)
(* Reading a CSV text by positions, independently of the scanning code:    *)
(* used to state the properties of parseCSV.                               *)
(***************************************************************************)
LFPositions(text) == {i \in 1..Len(text) : text[i] = LF}

LineStarts(text) == {1} \cup {i + 1 : i \in LFPositions(text)}

\* Last position of the line starting at s, without its line ending.
LineEnd(text, s) ==
  LET nl == IF \E j \in LFPositions(text) : j >= s
              THEN CHOOSE j \in LFPositions(text) :
                     j >= s /\ \A m \in LFPositions(text) : m >= s => j <= m
              ELSE Len(text) + 1
  IN IF nl <= Len(text) /\ nl - 1 >= s /\ text[nl - 1] = CR THEN nl - 2 ELSE nl - 1

HasInk(s) == \E i \in 1..Len(s) : ~IsSpace(s[i])

InkStarts(text) ==
  {s \in LineStarts(text) : HasInk(SubSeq(text, s, LineEnd(text, s)))}

\* The k-th non-blank line of the text.
SourceLine(text, k) ==
  LET s == CHOOSE x \in InkStarts(text) :
             Cardinality({y \in InkStarts(text) : y < x}) = k - 1
  IN SubSeq(text, s, LineEnd(text, s))

SourceLineCount(text) == Cardinality(InkStarts(text))

\* A comma separates fields iff an even number of quotes precedes it.
Separators(line) ==
  {i \in 1..Len(line) :
     line[i] = COMMA /\ Cardinality({j \in 1..(i - 1) : line[j] = QUOTE}) % 2 = 0}

NthSeparator(line, k) ==
  IF k = 0 THEN 0
  ELSE IF k > Cardinality(Separators(line)) THEN Len(line) + 1
  ELSE CHOOSE i \in Separators(line) :
         Cardinality({j \in Separators(line) : j < i}) = k - 1

NotQuote(c) == c # QUOTE

FieldsOf(line) ==
  [k \in 1..(Cardinality(Separators(line)) + 1) |->
     Trim(SelectSeq(SubSeq(line, NthSeparator(line, k - 1) + 1,
                                 NthSeparator(line, k) - 1), NotQuote))]

Parsed == pc = "parsed"

(***************************************************************************)
(* C1: for a text whose non-blank lines are a header line with N fields    *)
(* and M data lines, parseCSV returns N headers and M rows, and the k-th   *)
(* row is built from the k-th non-blank data line.                         *)
(***************************************************************************)
C1_RowsFollowSourceLines ==
  (Parsed /\ SourceLineCount(csvText) > 0) =>
    /\ Len(table.headers) = Cardinality(Separators(SourceLine(csvText, 1))) + 1
    /\ Len(table.rows) = SourceLineCount(csvText) - 1
    /\ \A k \in 1..Len(table.rows) :
         table.rows[k] = BuildRow(table.headers, SplitLine(SourceLine(csvText, k + 1)))

C1_Witness ==
  /\ Parsed
  /\ Len(table.rows) >= 2
  /\ table.rows[1] # table.rows[2]
  /\ Cardinality(LineStarts(csvText)) > SourceLineCount(csvText) + 1


\* The value parseCSV is to store for field i of a data line.
ExpectedCell(fields, i) ==
  IF i <= Len(fields) THEN Coerce(fields[i]) ELSE Str(<<>>)

LastOccurrence(headers, i) == \A j \in (i + 1)..Len(headers) : headers[j] # headers[i]

(***************************************************************************)
(* C2 as stated: for every header index i (names need not be distinct)     *)
(* the value stored under headers[i] is the coerced i-th field of the data *)
(* line, or the empty string when the line is too short.                   *)
(***************************************************************************)
C2_EveryHeaderIndexPaired ==
  Parsed =>
    \A k \in 1..Len(table.rows) : \A i \in 1..Len(table.headers) :
      table.rows[k][table.headers[i]]
        = ExpectedCell(SplitLine(SourceLine(csvText, k + 1)), i)

(***************************************************************************)
(* C2 amended: the value stored under headers[i] is the coerced i-th field *)
(* (or the empty string) for every index i that is the last occurrence of  *)
(* its header name; an earlier occurrence of a repeated name is            *)
(* overwritten by the last one.                                            *)
(***************************************************************************)
C2_LastHeaderIndexPaired ==
  Parsed =>
    \A k \in 1..Len(table.rows) : \A i \in 1..Len(table.headers) :
      LET j == CHOOSE m \in i..Len(table.headers) :
                 table.headers[m] = table.headers[i] /\ LastOccurrence(table.headers, m)
      IN table.rows[k][table.headers[i]]
           = ExpectedCell(SplitLine(SourceLine(csvText, k + 1)), j)

C2_Witness ==
  /\ Parsed
  /\ Len(table.headers) >= 2
  /\ table.headers[1] = table.headers[2]
  /\ \E k \in 1..Len(table.rows) :
       LET f == SplitLine(SourceLine(csvText, k + 1)) IN
         /\ Len(f) >= 2
         /\ Coerce(f[1]) # Coerce(f[2])
         /\ table.rows[k][table.headers[1]] = Coerce(f[2])

\* s is an optional sign, digits, and at most one dot, with a digit somewhere.
FullyNumeric(s) ==
  LET u == IF s # <<>> /\ (s[1] = "-" \/ s[1] = "+") THEN SubSeq(s, 2, Len(s)) ELSE s
  IN /\ \E i \in 1..Len(u) : IsDigit(u[i])
     /\ \A i \in 1..Len(u) : IsDigit(u[i]) \/ u[i] = "."
     /\ Cardinality({i \in 1..Len(u) : u[i] = "."}) <= 1

(***************************************************************************)
(* C3: a cell is stored as a number exactly when its trimmed,              *)
(* quote-stripped text is non-empty and fully numeric; otherwise it is     *)
(* stored as that string; a blank or missing cell is the empty string.     *)
(***************************************************************************)
C3_NumberIffNumericText ==
  Parsed =>
    \A k \in 1..Len(table.rows) : \A i \in 1..Len(table.headers) :
      LastOccurrence(table.headers, i) =>
        LET fields == FieldsOf(SourceLine(csvText, k + 1))
            txt == IF i <= Len(fields) THEN fields[i] ELSE <<>>
            cell == table.rows[k][table.headers[i]]
        IN /\ cell.type = "number" <=> (txt # <<>> /\ FullyNumeric(txt))
           /\ cell.type = "string" => cell.text = txt
           /\ txt = <<>> => cell = Str(<<>>)
           /\ txt = <<"4", "2">> => cell = Num(<<"4", "2">>)
           /\ txt = <<"4", "2", "a", "b", "c">> => cell = Str(txt)

C3_Witness ==
  /\ Parsed
  /\ Len(table.rows) >= 2
  /\ \E h \in DOMAIN table.rows[1] :
       /\ table.rows[1][h] = Num(<<"4", "2">>)
       /\ table.rows[2][h] = Str(<<"4", "2", "a", "b", "c">>)

C3_WitnessBlank ==
  /\ Parsed
  /\ \E k \in 1..Len(table.rows) : \E h \in DOMAIN table.rows[k] :
       /\ table.rows[k][h] = Str(<<>>)
       /\ \E g \in DOMAIN table.rows[k] : table.rows[k][g].type = "number"

(***************************************************************************)
(* C4: a comma separates fields only outside quotes (an even number of     *)
(* quote characters before it); a quoted comma stays in the field; header  *)
(* and data lines are split by the same rule; a,"b,c",d has the three      *)
(* fields a / b,c / d.                                                     *)
(***************************************************************************)
C4_QuotedCommaKept ==
  (Parsed /\ SourceLineCount(csvText) > 0) =>
    /\ table.headers = FieldsOf(SourceLine(csvText, 1))
    /\ \A k \in 1..Len(table.rows) :
         table.rows[k] = BuildRow(table.headers, FieldsOf(SourceLine(csvText, k + 1)))
    /\ csvText = <<"a", ",", "\"", "b", ",", "c", "\"", ",", "d">> =>
         table.headers = << <<"a">>, <<"b", ",", "c">>, <<"d">> >>

C4_Witness ==
  /\ Parsed
  /\ \E i \in 1..Len(table.headers) :
       \E j \in 1..Len(table.headers[i]) : table.headers[i][j] = COMMA
  /\ Len(table.headers) = 3

C4_WitnessData ==
  /\ Parsed
  /\ \E k \in 1..Len(table.rows) : \E h \in DOMAIN table.rows[k] :
       \E j \in 1..Len(table.rows[k][h].text) : table.rows[k][h].text[j] = COMMA

InsertAt(text, p, ins) == SubSeq(text, 1, p) \o ins \o SubSeq(text, p + 1, Len(text))

\* Lines that are empty or hold white space only (with a CR of a CRLF ending).
BlankLines == { <<>>, <<CR>>, <<" ">>, <<" ", "\t", CR>> }

IsTable(t) ==
  /\ DOMAIN t = {"headers", "rows"}
  /\ DOMAIN t.headers = 1..Len(t.headers)
  /\ DOMAIN t.rows = 1..Len(t.rows)
  /\ \A k \in 1..Len(t.rows) : \A h \in DOMAIN t.rows[k] :
       t.rows[k][h].type \in {"string", "number"}

(***************************************************************************)
(* C5: parseCSV discards every empty or white-space-only line, under CRLF  *)
(* and LF endings, trailing ones included, before it chooses the header    *)
(* line; it returns {headers: [], rows: []} when no line remains, and it   *)
(* returns a table for every input text.                                   *)
(***************************************************************************)
C5_BlankLinesDiscarded ==
  Parsed =>
    /\ IsTable(table)
    /\ ~HasInk(csvText) => table = [headers |-> <<>>, rows |-> <<>>]
    /\ HasInk(csvText) => Len(table.headers) >= 1
    /\ \A b \in BlankLines :
         /\ \A p \in {0} \cup LFPositions(csvText) :
              ParseCSV(InsertAt(csvText, p, b \o <<LF>>)) = table
         /\ ParseCSV(csvText \o <<LF>> \o b) = table

C5_Witness ==
  /\ Parsed
  /\ HasInk(csvText)
  /\ \E s \in LineStarts(csvText) \ InkStarts(csvText) :
       /\ s <= Len(csvText)
       /\ LineEnd(csvText, s) >= s
       /\ \E t \in InkStarts(csvText) : t > s
  /\ \E i \in LFPositions(csvText) : i > 1 /\ csvText[i - 1] = CR

C5_WitnessEmpty ==
  /\ Parsed
  /\ ~HasInk(csvText)
  /\ Len(csvText) >= 3
  /\ table = [headers |-> <<>>, rows |-> <<>>]

(***************************************************************************)
(* C6: every record's key set is a subset of the table's headers; fields   *)
(* of a data line beyond the number of headers never appear in the record. *)
(***************************************************************************)
C6_KeysWithinHeaders ==
  Parsed =>
    \A k \in 1..Len(table.rows) :
      /\ DOMAIN table.rows[k] \subseteq Range(table.headers)
      /\ \A h \in DOMAIN table.rows[k] :
           \E i \in 1..Len(table.headers) :
             /\ table.headers[i] = h
             /\ table.rows[k][h]
                  = ExpectedCell(FieldsOf(SourceLine(csvText, k + 1)), i)

C6_Witness ==
  /\ Parsed
  /\ \E k \in 1..Len(table.rows) :
       LET f == FieldsOf(SourceLine(csvText, k + 1)) IN
         /\ Len(f) > Len(table.headers)
         /\ \A h \in DOMAIN table.rows[k] : table.rows[k][h] # Coerce(f[Len(f)])


Compared == pc = "compared"

\* The two inputs are the strings x and y.
ComparedStrings(x, y) == Compared /\ cmpA = Str(x) /\ cmpB = Str(y)

(***************************************************************************)
(* C7: the comparator is symmetric: smartCompare(a, b) = smartCompare(b, a)*)
(* for all inputs, the version segment path included.                      *)
(***************************************************************************)
C7_Symmetric ==
  Compared => cmpResult = SmartCompare(cmpB, cmpA)

C7_Witness ==
  /\ Compared
  /\ cmpResult
  /\ IsVersion(Clean(TrimmedString(cmpA)))
  /\ IsVersion(Clean(TrimmedString(cmpB)))
  /\ Len(Segments(Clean(TrimmedString(cmpA)))) < Len(Segments(Clean(TrimmedString(cmpB))))

C7_WitnessUnequal ==
  /\ Compared
  /\ ~cmpResult
  /\ IsVersion(Clean(TrimmedString(cmpA)))
  /\ IsVersion(Clean(TrimmedString(cmpB)))
  /\ Len(PopTrailingZeros(Segments(Clean(TrimmedString(cmpA)))))
       < Len(PopTrailingZeros(Segments(Clean(TrimmedString(cmpB)))))

(***************************************************************************)
(* C8: stage 4 strips a leading prefix word of {rc, build, v, ver,         *)
(* version} with the separators after it: for each prefix word w and every *)
(* digits-and-dots version string s (one that starts with a digit),        *)
(* smartCompare(w + " " + s, s) is true; "RC 1.0.0" equals "Build 1" and   *)
(* "Version 1.0" equals "1.0".                                             *)
(***************************************************************************)
C8_PrefixWordStripped ==
  /\ (/\ Compared
      /\ cmpA.type = "string"
      /\ cmpB.type = "string"
      /\ IsVersion(cmpB.text)
      /\ IsDigit(cmpB.text[1])
      /\ \E k \in 1..Len(PrefixWords) : cmpA.text = PrefixWords[k] \o <<" ">> \o cmpB.text)
       => cmpResult
  /\ ComparedStrings(<<"R", "C", " ", "1", ".", "0", ".", "0">>,
                     <<"B", "u", "i", "l", "d", " ", "1">>) => cmpResult
  /\ ComparedStrings(<<"V", "e", "r", "s", "i", "o", "n", " ", "1", ".", "0">>,
                     <<"1", ".", "0">>) => cmpResult

\* The places of the dots of s, and the k-th piece between them.
DotPositions(s) == {i \in 1..Len(s) : s[i] = "."}

NthDot(s, k) ==
  IF k = 0 THEN 0
  ELSE IF k > Cardinality(DotPositions(s)) THEN Len(s) + 1
  ELSE CHOOSE i \in DotPositions(s) : Cardinality({j \in DotPositions(s) : j < i}) = k - 1

\* The integer value of the k-th segment of s, 0 when s has no k-th segment.
SegmentAt(s, k) ==
  IF k > Cardinality(DotPositions(s)) + 1 THEN 0
  ELSE SegmentNumber(SubSeq(s, NthDot(s, k - 1) + 1, NthDot(s, k) - 1))

\* Equal segment sequences once trailing zero segments are removed:
\* equal at every position when the shorter sequence is padded with zeros.
SameVersion(x, y) ==
  \A k \in 1..(Len(x) + Len(y) + 1) : SegmentAt(x, k) = SegmentAt(y, k)

(***************************************************************************)
(* C9: when both prefix-cleaned strings consist only of digits and dots,   *)
(* the comparator returns true exactly when the dot-separated integer      *)
(* segment sequences are equal after removing trailing zero segments:      *)
(* 1.0 = 1.0.0, v2.1 = 2.1.0, 1.2 # 1.3, 1.1 # 1.10.                       *)
(***************************************************************************)
C9_VersionSegments ==
  /\ (/\ Compared
      /\ IsVersion(Clean(TrimmedString(cmpA)))
      /\ IsVersion(Clean(TrimmedString(cmpB))))
       => (cmpResult <=> SameVersion(Clean(TrimmedString(cmpA)), Clean(TrimmedString(cmpB))))
  /\ ComparedStrings(<<"1", ".", "0">>, <<"1", ".", "0", ".", "0">>) => cmpResult
  /\ ComparedStrings(<<"v", "2", ".", "1">>, <<"2", ".", "1", ".", "0">>) => cmpResult
  /\ ComparedStrings(<<"1", ".", "2">>, <<"1", ".", "3">>) => ~cmpResult
  /\ ComparedStrings(<<"1", ".", "1">>, <<"1", ".", "1", "0">>) => ~cmpResult

C9_Witness ==
  /\ ComparedStrings(<<"v", "2", ".", "1">>, <<"2", ".", "1", ".", "0">>)
  /\ cmpResult

C9_WitnessUnequal ==
  /\ ComparedStrings(<<"1", ".", "1">>, <<"1", ".", "1", "0">>)
  /\ ~cmpResult

(***************************************************************************)
(* C10: if the trimmed string form of a or of b is empty, smartCompare     *)
(* returns false: two blank inputs are never equal, and                    *)
(* smartCompare("", "1.0") is false.                                       *)
(***************************************************************************)
C10_EmptyGuard ==
  /\ (Compared /\ (Trim(cmpA.text) = <<>> \/ Trim(cmpB.text) = <<>>)) => ~cmpResult
  /\ ComparedStrings(<<>>, <<"1", ".", "0">>) => ~cmpResult

C10_Witness ==
  /\ Compared
  /\ Trim(cmpA.text) = <<>>
  /\ Trim(cmpB.text) = <<>>
  /\ cmpA # cmpB
  /\ ~cmpResult

C10_WitnessOneBlank ==
  /\ ComparedStrings(<<>>, <<"1", ".", "0">>)
  /\ ~cmpResult


(***************************************************************************)
(* C11: for every string a with a non-empty trimmed form,                  *)
(* smartCompare(a, a) is true, and smartCompare(a, b) is true for every b  *)
(* that differs from a only in letter case or surrounding white space      *)
(* ("Build A" equals "build a").                                           *)
(***************************************************************************)
C11_SameUpToCaseAndSpace ==
  /\ (/\ Compared
      /\ cmpA.type = "string"
      /\ cmpB.type = "string"
      /\ Trim(cmpA.text) # <<>>
      /\ ToLowerCase(Trim(cmpA.text)) = ToLowerCase(Trim(cmpB.text)))
       => cmpResult
  /\ ComparedStrings(<<"B", "u", "i", "l", "d", " ", "A">>, <<"b", "u", "i", "l", "d", " ", "a">>) => cmpResult

C11_Witness ==
  /\ Compared
  /\ cmpA.type = "string"
  /\ cmpB.type = "string"
  /\ Trim(cmpA.text) # Trim(cmpB.text)
  /\ cmpB.text # Trim(cmpB.text)
  /\ ToLowerCase(Trim(cmpA.text)) = ToLowerCase(Trim(cmpB.text))
  /\ cmpResult

C11_WitnessReflexive ==
  /\ Compared
  /\ cmpA = cmpB
  /\ cmpA.type = "string"
  /\ ~IsVersion(Clean(Trim(cmpA.text)))
  /\ cmpResult

(***************************************************************************)
(* C12: the comparator works on the string form of its inputs: for every   *)
(* numeric cell value n that parseCSV can produce, 0 included,             *)
(* smartCompare(n, String(n)) is true.                                     *)
(***************************************************************************)
C12_NumberEqualsItsString ==
  (/\ Compared
   /\ cmpA.type = "number"
   /\ cmpA = Coerce(cmpA.text)
   /\ cmpB = Str(cmpA.text))
    => cmpResult

\* The part of the trimmed string s that clean removes from its start.
RemovedByClean(s) == SubSeq(s, 1, Len(s) - Len(Clean(s)))

StartsWithPrefixWord(s) ==
  \E k \in 1..Len(PrefixWords) : StartsWithIgnoreCase(s, PrefixWords[k])

(***************************************************************************)
(* C19: only one leading prefix occurrence is stripped: what clean removes *)
(* is nothing, or one prefix word and the separators after it; the cleaned *)
(* form of "RC RC 1.0" is "RC 1.0" and smartCompare("RC RC 1.0", "1.0") is *)
(* false; a prefix word that does not start the string is not stripped.    *)
(***************************************************************************)
C19_OnePrefixStripped ==
  /\ (Compared /\ cmpA.type = "string") =>
       LET sa == Trim(cmpA.text)
           gone == RemovedByClean(sa)
       IN /\ sa = gone \o Clean(sa)
          /\ ~StartsWithPrefixWord(sa) => Clean(sa) = sa
          /\ gone # <<>> =>
               \E k \in 1..Len(PrefixWords) :
                 /\ StartsWithIgnoreCase(gone, PrefixWords[k])
                 /\ \A i \in (Len(PrefixWords[k]) + 1)..Len(gone) : IsPrefixSeparator(gone[i])
          /\ (/\ StartsWithPrefixWord(sa)
              /\ StartsWithPrefixWord(Clean(sa))
              /\ cmpB.type = "string"
              /\ IsVersion(Trim(cmpB.text))) => ~cmpResult
  /\ ComparedStrings(<<"R", "C", " ", "R", "C", " ", "1", ".", "0">>, <<"1", ".", "0">>) =>
       /\ Clean(Trim(cmpA.text)) = <<"R", "C", " ", "1", ".", "0">>
       /\ ~cmpResult

C19_Witness ==
  /\ ComparedStrings(<<"R", "C", " ", "R", "C", " ", "1", ".", "0">>, <<"1", ".", "0">>)
  /\ ~cmpResult

C19_WitnessNotInitial ==
  /\ ComparedStrings(<<"a", " ", "r", "c", " ", "1">>, <<"1">>)
  /\ Clean(Trim(cmpA.text)) = cmpA.text
  /\ ~cmpResult


HasQuote(s) == \E i \in 1..Len(s) : s[i] = QUOTE

(***************************************************************************)
(* C18: quote characters are consumed by the field scan: no header and no  *)
(* string cell of a parsed table contains a quote character, so the later  *)
(* strip of a leading or trailing quote never changes a value.             *)
(***************************************************************************)
C18_NoQuoteSurvives ==
  Parsed =>
    /\ \A i \in 1..Len(table.headers) : ~HasQuote(table.headers[i])
    /\ \A k \in 1..Len(table.rows) : \A h \in DOMAIN table.rows[k] :
         ~HasQuote(table.rows[k][h].text)
    /\ \A k \in 1..SourceLineCount(csvText) :
         \A f \in Range(SplitLine(SourceLine(csvText, k))) : StripQuotes(f) = f

C18_Witness ==
  /\ Parsed
  /\ \E i \in 2..(Len(csvText) - 1) :
       /\ csvText[i] = QUOTE
       /\ csvText[i - 1] = "a"
       /\ csvText[i + 1] = "a"
  /\ \E k \in 1..Len(table.rows) : \E h \in DOMAIN table.rows[k] :
       table.rows[k][h] = Str(<<"a", "a">>)

OddQuotes(line) == Cardinality({i \in 1..Len(line) : line[i] = QUOTE}) % 2 = 1

\* The text with a closing quote put at the end of the line that starts at s.
CloseQuoteAt(text, s) == InsertAt(text, LineEnd(text, s), <<QUOTE>>)

(***************************************************************************)
(* C20: inQuotes is reset at the start of every line: an unclosed quote on *)
(* one line makes the rest of that line one field and never changes how    *)
(* the other lines are split; the table is the one obtained when that line *)
(* is well-formed (its quote closed at the end of the line).               *)
(***************************************************************************)
C20_UnclosedQuoteStaysInLine ==
  Parsed =>
    \A s \in InkStarts(csvText) :
      OddQuotes(SubSeq(csvText, s, LineEnd(csvText, s))) =>
        /\ ParseCSV(CloseQuoteAt(csvText, s)) = table
        /\ Len(table.rows) = SourceLineCount(csvText) - 1
        /\ \A k \in 1..Len(table.rows) :
             SourceLine(csvText, k + 1) # SubSeq(csvText, s, LineEnd(csvText, s)) =>
               table.rows[k] = BuildRow(table.headers, FieldsOf(SourceLine(csvText, k + 1)))

C20_Witness ==
  /\ Parsed
  /\ \E s \in InkStarts(csvText) :
       LET line == SubSeq(csvText, s, LineEnd(csvText, s)) IN
         /\ OddQuotes(line)
         /\ \E i \in 1..Len(line) : line[i] = COMMA /\ i \notin Separators(line)
         /\ \E t \in InkStarts(csvText) :
              /\ t > s
              /\ Separators(SubSeq(csvText, t, LineEnd(csvText, t))) # {}


Resolved == pc \in {"resolved", "extracted"}

\* Some alias equals the trimmed header, letter case aside.
AliasHit(h, aliases) ==
  \E a \in Range(aliases) : ToLowerCase(Trim(h)) = ToLowerCase(a)

(***************************************************************************)
(* C14: findCol returns the first header, in header order, whose trimmed   *)
(* lower-cased text equals the lower-cased text of some alias; it returns  *)
(* not-found when headers is empty or no header matches exactly; a header  *)
(* that only contains an alias (or is contained in one) is never returned. *)
(***************************************************************************)
C14_FirstExactHeader ==
  Resolved =>
    /\ colFound.found <=> \E i \in 1..Len(colHeaders) : AliasHit(colHeaders[i], colAliases)
    /\ colFound.found =>
         \E i \in 1..Len(colHeaders) :
           /\ colFound.header = colHeaders[i]
           /\ AliasHit(colHeaders[i], colAliases)
           /\ \A m \in 1..(i - 1) : ~AliasHit(colHeaders[m], colAliases)
    /\ ~colFound.found => colFound = NotFound
    /\ colHeaders = <<>> => ~colFound.found
    /\ (colHeaders = <<<<"p", "a", "s", "s", " ">>>> /\ colAliases = <<<<"P", "a", "s", "s">>>>) => colFound = Found(<<"p", "a", "s", "s", " ">>)

C14_Witness ==
  /\ Resolved
  /\ Len(colHeaders) = 3
  /\ colHeaders[1] = <<"P", "a", "s", "s", "e", "d">>
  /\ colHeaders[2] = <<"p", "a", "s", "s", " ">>
  /\ colHeaders[3] = <<"P", "a", "s", "s">>
  /\ colAliases = <<<<"P", "a", "s", "s">>>>
  /\ colFound = Found(<<"p", "a", "s", "s", " ">>)

C14_WitnessSubstring ==
  /\ Resolved
  /\ colHeaders = <<<<"P", "a", "s", "s", "e", "d">>, <<"F", "a", "i", "l">>>>
  /\ colAliases = <<<<"P", "a", "s", "s">>>>
  /\ ~colFound.found

\* The rearrangements of a sequence.
Rearrangements(seq) ==
  {[i \in 1..Len(seq) |-> seq[p[i]]] :
     p \in {q \in [1..Len(seq) -> 1..Len(seq)] :
              \A i, j \in 1..Len(seq) : q[i] = q[j] => i = j}}

(***************************************************************************)
(* C15: the result of findCol does not depend on the order of the alias    *)
(* list: every rearrangement of the aliases gives the same header, or      *)
(* not-found for both.                                                     *)
(***************************************************************************)
C15_AliasOrderIrrelevant ==
  Resolved =>
    \A other \in Rearrangements(colAliases) : FindCol(colHeaders, other) = colFound

C15_Witness ==
  /\ Resolved
  /\ Len(colAliases) = 2
  /\ Len(colHeaders) >= 2
  /\ colFound = Found(colHeaders[1])
  /\ AliasHit(colHeaders[1], <<colAliases[2]>>)
  /\ ~AliasHit(colHeaders[1], <<colAliases[1]>>)
  /\ AliasHit(colHeaders[2], <<colAliases[1]>>)

Extracted == pc = "extracted"

C16_WitnessString ==
  /\ Extracted
  /\ colFound.found
  /\ colRow[colFound.header] = Str(<<"x">>)
  /\ colValue = Num(<<"0">>)

C16_WitnessNotFound ==
  /\ Extracted
  /\ ~colFound.found
  /\ \E h \in DOMAIN colRow : colRow[h].type = "number"
  /\ colValue = Num(<<"0">>)


Filtered == pc = "filtered"

EndToEndText ==
  JoinLines(SheetHeader,
    << <<"\"", "R", "C", " ", "1", ".", "0", "\"", ",", "i", "O", "S", ",", "1", "0", ",", "2">>,
       <<"R", "C", " ", "1", ".", "0", ".", "0", ",", "A", "n", "d", "r", "o", "i", "d", ",", "8", ",", "1">> >>)

(***************************************************************************)
(* C13: end to end, the text                                               *)
(*   Build,Platform,Passed,Failed / "RC 1.0",iOS,10,2 / RC 1.0.0,Android,8,1 *)
(* parses to the headers Build, Platform, Passed, Failed and two rows with *)
(* row 1 Build = the string "RC 1.0" and Passed = the number 10, and       *)
(* filtering the rows by the build "1.0.0" keeps both rows.                *)
(***************************************************************************)
C13_EndToEnd ==
  (Filtered /\ csvText = EndToEndText) =>
    /\ table.headers = << <<"B", "u", "i", "l", "d">>, <<"P", "l", "a", "t", "f", "o", "r", "m">>, <<"P", "a", "s", "s", "e", "d">>, <<"F", "a", "i", "l", "e", "d">> >>
    /\ Len(table.rows) = 2
    /\ table.rows[1][<<"B", "u", "i", "l", "d">>] = Str(<<"R", "C", " ", "1", ".", "0">>)
    /\ table.rows[1][<<"P", "a", "s", "s", "e", "d">>] = Num(<<"1", "0">>)
    /\ selectedBuild = <<"1", ".", "0", ".", "0">> => filteredRows = table.rows

C13_Witness ==
  /\ Filtered
  /\ csvText = EndToEndText
  /\ selectedBuild = <<"1", ".", "0", ".", "0">>
  /\ Len(filteredRows) = 2
  /\ filteredRows[2][<<"B", "u", "i", "l", "d">>] = Str(<<"R", "C", " ", "1", ".", "0", ".", "0">>)


\* Call c is answered with a body in this step, or ends in its catch.
Succeeds(c) == calls[c].pc = "fetch" /\ calls'[c].pc = "stored"

FailsNow(c) == calls[c].pc \in {"fetch", "discover"} /\ calls'[c].pc = "failed"

(***************************************************************************)
(* C17: the table stored for a tab changes only in a step in which a fetch *)
(* for that tab succeeds, and it is then the table parsed from the text of *)
(* that response, whatever was stored before; a fetch that fails leaves    *)
(* every stored table as it was, and a fetch that succeeds leaves the      *)
(* tables of the other tabs as they were.                                  *)
(***************************************************************************)
C17_TableReplacedOnlyOnSuccess ==
  [][ /\ \A t \in TabIds :
           dataMap'[t] # dataMap[t] =>
             \E c \in DOMAIN calls : calls[c].tabId = t /\ Succeeds(c)
      /\ \A c \in DOMAIN calls :
           /\ Succeeds(c) =>
                /\ dataMap'[calls[c].tabId] = Loaded(ParseCSV(calls'[c].text))
                /\ \A t \in TabIds \ {calls[c].tabId} : dataMap'[t] = dataMap[t]
           /\ FailsNow(c) => dataMap' = dataMap ]_vars

\* One tab has had its table replaced by the table of another text, while a
\* later fetch for another tab failed and its table is still the one stored.
C17_Witness ==
  \E c1, c2, c3, c4 \in DOMAIN calls :
    /\ c1 < c2 /\ c3 < c4
    /\ calls[c1].tabId = calls[c2].tabId
    /\ calls[c3].tabId = calls[c4].tabId
    /\ calls[c1].tabId # calls[c3].tabId
    /\ calls[c1].pc = "stored" /\ calls[c2].pc = "stored"
    /\ ParseCSV(calls[c1].text) # ParseCSV(calls[c2].text)
    /\ dataMap[calls[c2].tabId] = Loaded(ParseCSV(calls[c2].text))
    /\ calls[c3].pc = "stored" /\ calls[c4].pc = "failed"
    /\ dataMap[calls[c3].tabId] = Loaded(ParseCSV(calls[c3].text))


\* The rows at the indices in keep, in table order.
RECURSIVE RowsAt(_, _, _)
RowsAt(rows, k, keep) ==
  IF k > Len(rows) THEN <<>>
  ELSE (IF k \in keep THEN <<rows[k]>> ELSE <<>>) \o RowsAt(rows, k + 1, keep)

BuildHeader == <<"B", "u", "i", "l", "d">>
PlatformHeader == <<"P", "l", "a", "t", "f", "o", "r", "m">>

DateHeader == <<"D", "a", "t", "e">>

\* Row k of the table passes the date range: no range is set or the table has
\* no date column, or the row has a date cell that lies within the range.
WithinDates(k) ==
  \/ startDate = <<>> /\ endDate = <<>>
  \/ DateHeader \notin Range(table.headers)
  \/ LET cell == table.rows[k][DateHeader] IN
       /\ cell.type = "string"
       /\ IsCalendarDate(cell.text)
       /\ startDate = <<>> \/ TimeValue(cell.text) >= TimeValue(startDate)
       /\ endDate = <<>> \/ TimeValue(cell.text) <= TimeValue(endDate)

BuildMatches(k) == SmartCompare(table.rows[k][BuildHeader], Str(selectedBuild))

PlatformMatches(k) == SmartCompare(table.rows[k][PlatformHeader], Str(selectedPlatform))

C21_WitnessDates ==
  /\ Filtered
  /\ selectedBuild # All
  /\ startDate # <<>>
  /\ filteredRows # <<>>
  /\ \E k \in 1..Len(table.rows) : BuildMatches(k) /\ ~WithinDates(k)

\* Only a platform is selected, and it removes a row.
C21_WitnessPlatformOnly ==
  /\ Filtered
  /\ selectedBuild = All
  /\ selectedPlatform # All
  /\ filteredRows # <<>>
  /\ Len(filteredRows) < Len(table.rows)


NonBlank(v) == Trim(v.text) # <<>>

(***************************************************************************)
(* C22: the comparator is transitive on non-blank strings: for labels a,   *)
(* b, c whose trimmed form is not empty, smartCompare(a, b) and            *)
(* smartCompare(b, c) imply smartCompare(a, c).                            *)
(***************************************************************************)
C22_Transitive ==
  (Compared /\ NonBlank(cmpA) /\ NonBlank(cmpB) /\ NonBlank(cmpC)) =>
    ((cmpResult /\ cmpBC) => cmpAC)

\* Three labels with three different texts are related through the middle
\* one: by their cleaned text on one side, by their version on the other.
C22_Witness ==
  /\ Compared
  /\ cmpResult /\ cmpBC /\ cmpAC
  /\ Clean(Trim(cmpA.text)) = Clean(Trim(cmpB.text))
  /\ Clean(Trim(cmpB.text)) # Clean(Trim(cmpC.text))
  /\ cmpA.text # cmpB.text

\* The first two labels are equal and the third is equal to neither.
C22_WitnessUnrelated ==
  /\ Compared
  /\ NonBlank(cmpC)
  /\ cmpA.text # cmpB.text
  /\ cmpResult /\ ~cmpBC /\ ~cmpAC


\* The prefix word the label starts with (the first alternative of the
\* pattern that fits), or the empty string.
PrefixWordOf(s) ==
  IF \E i \in 1..Len(PrefixWords) : StartsWithIgnoreCase(s, PrefixWords[i])
    THEN PrefixWords[CHOOSE i \in 1..Len(PrefixWords) :
           /\ StartsWithIgnoreCase(s, PrefixWords[i])
           /\ \A j \in 1..(i - 1) : ~StartsWithIgnoreCase(s, PrefixWords[j])]
    ELSE <<>>

\* The label is a prefix word followed by separators only.
OnlyPrefix(s) ==
  /\ PrefixWordOf(s) # <<>>
  /\ \A i \in (Len(PrefixWordOf(s)) + 1)..Len(s) : s[i] \in {" ", "\t", ":", ".", "-"}

(***************************************************************************)
(* C23: the comparator does not report equality of two labels that are     *)
(* blank after prefix cleaning: two labels that consist only of different  *)
(* prefix words and separators, such as "RC" and "Build", are not equal.   *)
(***************************************************************************)
C23_BlankAfterCleaningUnequal ==
  (/\ Compared
   /\ cmpA.type = "string" /\ cmpB.type = "string"
   /\ OnlyPrefix(Trim(cmpA.text)) /\ OnlyPrefix(Trim(cmpB.text))
   /\ PrefixWordOf(Trim(cmpA.text)) # PrefixWordOf(Trim(cmpB.text)))
    => ~cmpResult


(***************************************************************************)
(* C24: parsing does not change comparison results: for two cell texts,    *)
(* smartCompare applied to the values parseCSV stores for them gives the   *)
(* same result as smartCompare applied to the texts themselves.            *)
(***************************************************************************)
C24_ParsingKeepsComparison ==
  (Compared /\ Len(table.rows) = 2) => (cmpStored <=> cmpResult)


\* Discovery of call c finds a matching sheet in this step, and the retry
\* request is issued.
Retries(c) == calls[c].pc = "discover" /\ calls'[c].pc = "fetch"

(***************************************************************************)
(* C25: when a fetch for a tab without overrideUrl gets 400 or 404 and     *)
(* discovery finds a sheet whose name matches the tab label, the retry     *)
(* request issued by fetchData uses the newly discovered gid, not the gid  *)
(* that just failed.                                                       *)
(***************************************************************************)
C25_RetryUsesDiscoveredGid ==
  [][ \A c \in DOMAIN calls :
        Retries(c) => calls'[c].gid = dynamicGidMap'[calls[c].tabId] ]_vars


(***************************************************************************)
(* C27: whenever a fetch for a tab succeeds and stores its parsed table in *)
(* dataMap, errorMap for that tab is null afterwards: a successful         *)
(* refresh, silent or not, leaves no error of an earlier failed fetch      *)
(* displayed for that tab.                                                 *)
(***************************************************************************)
C27_SuccessClearsError ==
  [][ \A c \in DOMAIN calls :
        Succeeds(c) => errorMap'[calls[c].tabId] = NoError ]_vars

InFlight(c) == calls[c].pc \in {"fetch", "discover"}

(***************************************************************************)
(* C28: for every tab, loadingMap[tab] is true whenever a non-silent       *)
(* fetchData call for that tab, its discovery retry and any overlapping    *)
(* non-silent call included, still has a request in flight, and it is      *)
(* false once all of them have completed.                                  *)
(***************************************************************************)
C28_LoadingWhileInFlight ==
  \A t \in TabIds :
    loadingMap[t] <=>
      \E c \in DOMAIN calls : calls[c].tabId = t /\ ~calls[c].silent /\ InFlight(c)


(***************************************************************************)
(* C29: when two fetchData calls for the same tab overlap, after both have *)
(* completed successfully dataMap[tab] holds the table parsed from the     *)
(* response of the call that was started later, whatever the order in      *)
(* which the responses arrive.                                             *)
(***************************************************************************)
C29_LaterCallWins ==
  \A c1, c2 \in DOMAIN calls :
    (/\ c1 < c2
     /\ calls[c1].tabId = calls[c2].tabId
     /\ calls[c1].pc = "stored"
     /\ calls[c2].pc = "stored")
      => dataMap[calls[c2].tabId] = Loaded(ParseCSV(calls[c2].text))


\* The automatic refreshes triggered so far: every silent call is one of the
\* calls of a syncAll(true).
AutoSyncs == Cardinality({c \in DOMAIN calls : calls[c].silent}) \div Len(TABS_CONFIG)

IntervalTicks == REFRESH_INTERVAL \div TICK_MS

(***************************************************************************)
(* C26: the automatic refresh fires once per REFRESH_INTERVAL: after an    *)
(* automatic syncAll has been triggered by the one-second timer, no        *)
(* further automatic syncAll is triggered until another full interval of   *)
(* 120 ticks has elapsed, as long as activeTab and syncAll do not change;  *)
(* so after n ticks at most n / 120 automatic refreshes have been          *)
(* triggered.                                                              *)
(***************************************************************************)
C26_OncePerInterval == AutoSyncs * IntervalTicks <= ticks


====
